---------------------------- MODULE Spec2Model ----------------------------
(***************************************************************************)
(* Streaming response reassembly and tag enforcement (openclaw).           *)
(*                                                                         *)
(* Several state machines share this module, each with its own             *)
(* specification:                                                          *)
(*   SpecScan  the tag scanner stripBlockTags fed a text chunk by chunk    *)
(*   SpecCall  one call of the scanner, enforcement mode on or off        *)
(*   SpecSub   the subscription's assistantTexts / messaging-tool dedup    *)
(*   SpecEmit  the same subscription with block chunks emitted             *)
(*   SpecRot   the key-rotation stream wrapper                             *)
(*   SpecComp  the compaction-retry coordinator                            *)
(*   SpecIdle  the idle reminder                                           *)
(*   SpecNc    the non-conforming output handler                           *)
(* Texts are sequences of one-character strings; offsets into a text are   *)
(* JavaScript offsets (0-based, end exclusive).                            *)
(***************************************************************************)
EXTENDS Integers, Sequences, FiniteSets, TLC

VARIABLES
    \* ---- tag scanner (SpecScan) ----
    scanInput,      \* the logical text being streamed: [kind, T, F, text]
    rest,           \* the part of scanInput.text not yet fed
    nFed,           \* the number of chunks fed so far
    lastChunk,      \* the chunk fed last
    lastCall,       \* the state before the last scanner call, and its output
    blockState,     \* state.blockState: [thinking, final, inlineCode]
    out,            \* the scanner's outputs so far, concatenated
    \* ---- subscription texts and dedup (SpecSub) ----
    sub,            \* EmbeddedPiSubscribeState (the fields of the dedup guard)
    subParams,      \* params: [onBlockReply, includeReasoning]
    blockReplies,   \* texts handed to params.onBlockReply, in order
    toolLog,        \* history of messaging-tool sends: [text, isError]
    lastEnd,        \* the last message_end: its text and the state before it
    \* ---- key rotation (SpecRot) ----
    profileCandidates,  \* params.profileCandidates (0 stands for undefined)
    rotationState,      \* KeyRotationState
    authStore,          \* the profiles that are in a cooldown window
    rot,                \* the position of the wrapped call's async body
    outputStream,       \* the stream handed downstream: [events, ended]
    calls,              \* the underlying streamFn calls of the current call
    attempts,           \* what each attempt of the current call came to
    \* ---- compaction-retry coordinator (SpecComp) ----
    comp,           \* pendingCompactionRetry, compactionInFlight, promise, ...
    promises,       \* every shared promise created: its settlement
    waiters,        \* every promise waitForCompactionRetry returned
    \* ---- idle reminder (SpecIdle) ----
    activeReminders,    \* the map's entry for the session (0: none)
    reminderStates,     \* every IdleReminderState object created
    timers,             \* the timers that are armed
    checks,             \* the checkAndMaybeRemind calls awaiting the heartbeat
    transcript,         \* the entries of the session's transcript file
    idleLog,            \* what the ticks did since the reminder's last reset
    \* ---- non-conforming output handler (SpecNc) ----
    nc,                 \* the run loop: attempt, retryCount, the handler's result
    \* ---- further components, one variable each ----
    buf,                \* the buffering wrapper: a call, the real stream, the buffered stream
    gns,                \* the non-streaming Google wrapper: a call, its response, its stream
    promo,              \* promoteCallTagsToBlocks: the message before and after a call
    cache               \* the agent media cache: the index, the files, the saveToAgentCache calls

scanVars == <<scanInput, rest, nFed, lastChunk, lastCall, blockState, out>>
subVars  == <<sub, subParams, blockReplies, toolLog, lastEnd>>
rotVars  == <<profileCandidates, rotationState, authStore, rot, outputStream,
              calls, attempts>>
compVars == <<comp, promises, waiters>>
idleVars == <<activeReminders, reminderStates, timers, checks, transcript,
              idleLog>>
extVars  == <<buf, gns, promo, cache>>
vars     == <<scanVars, subVars, rotVars, compVars, idleVars, nc, extVars>>

\* What the actions of one component leave alone: the other components.
notScan == <<subVars, rotVars, compVars, idleVars, nc, extVars>>
notSub  == <<scanVars, rotVars, compVars, idleVars, nc, extVars>>
notRot  == <<scanVars, subVars, compVars, idleVars, nc, extVars>>
notComp == <<scanVars, subVars, rotVars, idleVars, nc, extVars>>
notIdle == <<scanVars, subVars, rotVars, compVars, nc, extVars>>
notNc   == <<scanVars, subVars, rotVars, compVars, idleVars, extVars>>
notExt  == <<scanVars, subVars, rotVars, compVars, idleVars, nc>>

-----------------------------------------------------------------------------
(***************************************************************************)
(* Texts                                                                   *)
(***************************************************************************)

\* String.prototype.slice(a, b) on a text.
Slice(s, a, b) == SubSeq(s, a + 1, b)

\* String.prototype.slice(a) on a text.
SliceFrom(s, a) == SubSeq(s, a + 1, Len(s))

\* The regular expressions' \s.
IsSpace(c) == c \in {" ", "\n", "\t"}

\* The regular expressions' i flag, on the letters that occur in a tag name.
ToLower(c) ==
    CASE c = "A" -> "a" [] c = "D" -> "d" [] c = "F" -> "f" [] c = "G" -> "g"
      [] c = "H" -> "h" [] c = "I" -> "i" [] c = "K" -> "k" [] c = "L" -> "l"
      [] c = "N" -> "n" [] c = "O" -> "o" [] c = "T" -> "t" [] c = "U" -> "u"
      [] OTHER -> c

\* (?:think(?:ing)?|thought|antthinking)
ThinkingNames ==
    { <<"t","h","i","n","k">>,
      <<"t","h","i","n","k","i","n","g">>,
      <<"t","h","o","u","g","h","t">>,
      <<"a","n","t","t","h","i","n","k","i","n","g">> }

\* final
FinalNames == { <<"f","i","n","a","l">> }

\* The offset of the first character at or after offset i that \s* leaves.
RECURSIVE SkipSpace(_, _)
SkipSpace(s, i) ==
    IF i < Len(s) /\ IsSpace(s[i + 1]) THEN SkipSpace(s, i + 1) ELSE i

\* Whether the word w (lower case) stands at offset i of s, whatever the case.
WordAt(s, i, w) ==
    /\ i + Len(w) <= Len(s)
    /\ \A k \in 1..Len(w) : ToLower(s[i + k]) = w[k]

\* The character at offset i, or "" past the end.
CharAt(s, i) == IF i >= 0 /\ i < Len(s) THEN s[i + 1] ELSE ""

NoMatch == [ok |-> FALSE, index |-> 0, close |-> FALSE, end |-> 0]

\* A match of /<\s*(\/?)\s*NAMES\s*>/i that starts at offset i:
\* close is match[1] === "/", end is index + match[0].length.
ScanTagAt(s, i, names) ==
    IF CharAt(s, i) # "<" THEN NoMatch
    ELSE LET j1    == SkipSpace(s, i + 1)
             close == CharAt(s, j1) = "/"
             j2    == IF close THEN SkipSpace(s, j1 + 1) ELSE j1
             ends  == { SkipSpace(s, j2 + Len(w)) :
                          w \in { x \in names : WordAt(s, j2, x) } }
             good  == { e \in ends : CharAt(s, e) = ">" }
         IN  IF good = {} THEN NoMatch
             ELSE [ok |-> TRUE, index |-> i, close |-> close,
                   end |-> (CHOOSE e \in good : TRUE) + 1]

\* text.matchAll(re) for a tag scan expression: the matches from offset i on,
\* left to right (a match holds one "<", so matches never overlap).
RECURSIVE MatchAllFrom(_, _, _)
MatchAllFrom(s, i, names) ==
    IF i >= Len(s) THEN <<>>
    ELSE LET m == ScanTagAt(s, i, names)
         IN  IF m.ok THEN <<m>> \o MatchAllFrom(s, m.end, names)
             ELSE MatchAllFrom(s, i + 1, names)

\* THINKING_TAG_SCAN_RE
THINKING_TAG_SCAN_RE(s) == MatchAllFrom(s, 0, ThinkingNames)

\* FINAL_TAG_SCAN_RE
FINAL_TAG_SCAN_RE(s) == MatchAllFrom(s, 0, FinalNames)

-----------------------------------------------------------------------------
(***************************************************************************)
(* Malformed-tag repairer (shared/text/reasoning-tags.ts)                  *)
(***************************************************************************)

\* The regular expressions' \w, which decides \b after "final".
IsWordChar(c) ==
    c \in { "a","b","c","d","e","f","g","h","i","j","k","l","m","n","o","p",
            "q","r","s","t","u","v","w","x","y","z",
            "A","B","C","D","E","F","G","H","I","J","K","L","M","N","O","P",
            "Q","R","S","T","U","V","W","X","Y","Z",
            "0","1","2","3","4","5","6","7","8","9","_" }

\* The offset of the ">" that ends [^<>]*> read from offset i, or -1.
RECURSIVE AttrEnd(_, _)
AttrEnd(s, i) ==
    IF i >= Len(s) \/ s[i + 1] = "<" THEN -1
    ELSE IF s[i + 1] = ">" THEN i
    ELSE AttrEnd(s, i + 1)

\* A match of /<\s*final\b[^<>]*>/i that starts at offset i.
FinalOpenAt(s, i) ==
    IF CharAt(s, i) # "<" THEN NoMatch
    ELSE LET j == SkipSpace(s, i + 1)
             e == AttrEnd(s, j + 5)
         IN  IF /\ WordAt(s, j, <<"f","i","n","a","l">>)
                /\ ~IsWordChar(CharAt(s, j + 5))
                /\ e >= 0
             THEN [ok |-> TRUE, index |-> i, close |-> FALSE, end |-> e + 1]
             ELSE NoMatch

\* A match of /<\s*(?:think(?:ing)?|thought|antthinking)\s*>/i at offset i.
ThinkOpenAt(s, i) ==
    LET m == ScanTagAt(s, i, ThinkingNames)
    IN  IF m.ok /\ ~m.close THEN m ELSE NoMatch

\* text.match(re) without the g flag: the leftmost match from offset i on.
RECURSIVE FirstThinkOpenFrom(_, _)
FirstThinkOpenFrom(s, i) ==
    IF i >= Len(s) THEN NoMatch
    ELSE LET m == ThinkOpenAt(s, i)
         IN  IF m.ok THEN m ELSE FirstThinkOpenFrom(s, i + 1)

RECURSIVE FirstFinalOpenFrom(_, _)
FirstFinalOpenFrom(s, i) ==
    IF i >= Len(s) THEN NoMatch
    ELSE LET m == FinalOpenAt(s, i)
         IN  IF m.ok THEN m ELSE FirstFinalOpenFrom(s, i + 1)

\* /<\s*\/\s*(?:think(?:ing)?|thought|antthinking)\s*>/i.test(between)
HasThinkClose(between) ==
    \E i \in 0..(Len(between) - 1) :
        LET m == ScanTagAt(between, i, ThinkingNames) IN m.ok /\ m.close

CloseThinkTag == <<"<","/","t","h","i","n","k",">">>

\* A repairer that never inserts the closing tag.
repairMalformedReasoningTags_NoRepair(text) == text

repairMalformedReasoningTags(text) ==
    IF text = <<>> THEN text
    ELSE LET thinkOpenMatch == FirstThinkOpenFrom(text, 0)
             finalOpenMatch == FirstFinalOpenFrom(text, 0)
         IN  IF ~thinkOpenMatch.ok \/ ~finalOpenMatch.ok THEN text
             ELSE IF thinkOpenMatch.index >= finalOpenMatch.index THEN text
             ELSE IF HasThinkClose(Slice(text, thinkOpenMatch.end,
                                         finalOpenMatch.index)) THEN text
             ELSE Slice(text, 0, finalOpenMatch.index) \o CloseThinkTag
                    \o SliceFrom(text, finalOpenMatch.index)

-----------------------------------------------------------------------------
(***************************************************************************)
(* Code spans (markdown/code-spans.js): inline spans between backticks,    *)
(* an unclosed span running to the end of the text and into the next one.  *)
(***************************************************************************)

\* The backtick character (the lexer takes no backtick inside a string).
Backtick == "BACKTICK"

RECURSIVE CountTicks(_, _)
CountTicks(s, n) ==
    IF n <= 0 THEN 0
    ELSE (IF s[n] = Backtick THEN 1 ELSE 0) + CountTicks(s, n - 1)

\* buildCodeSpanIndex(text, inlineState).isInside(index)
CodeSpanIsInside(text, inlineState, index) ==
    ((IF inlineState THEN 1 ELSE 0) + CountTicks(text, index)) % 2 = 1

\* buildCodeSpanIndex(text, inlineState).inlineState
CodeSpanInlineState(text, inlineState) ==
    ((IF inlineState THEN 1 ELSE 0) + CountTicks(text, Len(text))) % 2 = 1

-----------------------------------------------------------------------------
(***************************************************************************)
(* Tag scanner: stripBlockTags                                             *)
(***************************************************************************)

\* A pass 1 that finds no orphaned closing tag.
OrphanedCloseEnd_None(ms, k, sawOpen, last, repaired, useCodeSpans, inl) == -1

\* Pass 1: the end of the last closing thinking tag met before any opening
\* one (-1 when there is none).
RECURSIVE OrphanedCloseEnd(_, _, _, _, _, _, _)
OrphanedCloseEnd(ms, k, sawOpen, last, repaired, useCodeSpans, inl) ==
    IF k > Len(ms) THEN last
    ELSE IF useCodeSpans /\ CodeSpanIsInside(repaired, inl, ms[k].index)
    THEN OrphanedCloseEnd(ms, k + 1, sawOpen, last, repaired, useCodeSpans, inl)
    ELSE LET isClose == ms[k].close
             saw     == sawOpen \/ ~isClose
         IN  OrphanedCloseEnd(ms, k + 1, saw,
                              IF isClose /\ ~saw THEN ms[k].end ELSE last,
                              repaired, useCodeSpans, inl)

\* Pass 2: the text outside thinking spans, and the thinking state at the end.
RECURSIVE ThinkPass(_, _, _, _, _, _, _, _, _, _)
ThinkPass(ms, k, processed, lastIndex, inThinking, thinkInput, thinkOffset, repaired, useCodeSpans, inl) ==
    IF k > Len(ms)
    THEN [processed |-> IF ~inThinking
                        THEN processed \o SliceFrom(thinkInput, lastIndex)
                        ELSE processed,
          thinking  |-> inThinking]
    ELSE IF useCodeSpans
            /\ CodeSpanIsInside(repaired, inl, ms[k].index + thinkOffset)
    THEN ThinkPass(ms, k + 1, processed, lastIndex, inThinking, thinkInput,
                   thinkOffset, repaired, useCodeSpans, inl)
    ELSE ThinkPass(ms, k + 1,
                   IF ~inThinking
                   THEN processed \o Slice(thinkInput, lastIndex, ms[k].index)
                   ELSE processed,
                   ms[k].end, ~ms[k].close, thinkInput, thinkOffset,
                   repaired, useCodeSpans, inl)

\* stripTagsOutsideCodeSpans(text, pattern, isInside)
RECURSIVE StripTagsLoop(_, _, _, _, _, _)
StripTagsLoop(ms, k, output, lastIndex, text, inl) ==
    IF k > Len(ms) THEN output \o SliceFrom(text, lastIndex)
    ELSE IF CodeSpanIsInside(text, inl, ms[k].index)
    THEN StripTagsLoop(ms, k + 1, output, lastIndex, text, inl)
    ELSE StripTagsLoop(ms, k + 1,
                       output \o Slice(text, lastIndex, ms[k].index),
                       ms[k].end, text, inl)

stripTagsOutsideCodeSpans(text, inl) ==
    StripTagsLoop(FINAL_TAG_SCAN_RE(text), 1, <<>>, 0, text, inl)

\* A final pass that keeps the whole text whatever the spans are.
FinalPass_KeepsAll(ms, k, result, lastFinalIndex, inFinal, everInFinal, processed) ==
    [result |-> processed, final |-> inFinal, everInFinal |-> TRUE]

\* Enforcement mode: the text inside <final> spans.
RECURSIVE FinalPass(_, _, _, _, _, _, _)
FinalPass(ms, k, result, lastFinalIndex, inFinal, everInFinal, processed) ==
    IF k > Len(ms)
    THEN [result |-> IF inFinal
                     THEN result \o SliceFrom(processed, lastFinalIndex)
                     ELSE result,
          final |-> inFinal, everInFinal |-> everInFinal]
    ELSE IF ~inFinal /\ ~ms[k].close
    THEN FinalPass(ms, k + 1, result, ms[k].end, TRUE, TRUE, processed)
    ELSE IF inFinal /\ ms[k].close
    THEN FinalPass(ms, k + 1,
                   result \o Slice(processed, lastFinalIndex, ms[k].index),
                   ms[k].end, FALSE, everInFinal, processed)
    ELSE FinalPass(ms, k + 1, result, lastFinalIndex, inFinal, everInFinal,
                   processed)

\* Hardened cleanup: every remaining final tag is cut out of the result.
RECURSIVE CleanupLoop(_, _, _, _, _)
CleanupLoop(ms, k, cleaned, cleanLastIndex, result) ==
    IF k > Len(ms) THEN cleaned \o SliceFrom(result, cleanLastIndex)
    ELSE CleanupLoop(ms, k + 1,
                     cleaned \o Slice(result, cleanLastIndex, ms[k].index),
                     ms[k].end, result)

\* The tail of stripBlockTags in enforcement mode, from the final pass's
\* result fp on: nothing when no final span was seen, else the hardened
\* cleanup of fp.result.
EnforcedResult(fp, thinking, inl) ==
    IF ~fp.everInFinal
    THEN [text  |-> <<>>,
          state |-> [thinking |-> thinking, final |-> fp.final,
                     inlineCode |-> inl]]
    ELSE [text  |-> CleanupLoop(FINAL_TAG_SCAN_RE(fp.result), 1, <<>>, 0,
                                fp.result),
          state |-> [thinking |-> thinking, final |-> fp.final,
                     inlineCode |-> CodeSpanInlineState(fp.result, inl)]]

\* A step 2 that never enforces final spans.
StripFinal_NeverEnforces(tp, state, enforceFinalTag) ==
    [text  |-> stripTagsOutsideCodeSpans(tp.processed, state.inlineCode),
     state |-> [thinking |-> tp.thinking, final |-> state.final,
                inlineCode |-> CodeSpanInlineState(tp.processed,
                                                   state.inlineCode)]]

\* Step 2 of stripBlockTags, from the thinking pass's result tp on.
StripFinal(tp, state, enforceFinalTag) ==
    IF ~enforceFinalTag
    THEN [text  |-> stripTagsOutsideCodeSpans(tp.processed, state.inlineCode),
          state |-> [thinking |-> tp.thinking, final |-> state.final,
                     inlineCode |-> CodeSpanInlineState(tp.processed,
                                                        state.inlineCode)]]
    ELSE EnforcedResult(FinalPass(FINAL_TAG_SCAN_RE(tp.processed), 1, <<>>, 0,
                                  state.final, state.final, tp.processed),
                        tp.thinking, state.inlineCode)

\* A pass 2 that leaves the state thinking whenever its input opened a
\* thinking span, closed or not.
StripThinking_OpenSticks(thinkInput, thinkOffset, inThinking, repaired, state, enforceFinalTag) ==
    StripFinal([processed |->
                    ThinkPass(THINKING_TAG_SCAN_RE(thinkInput), 1, <<>>, 0,
                              inThinking, thinkInput, thinkOffset, repaired,
                              ~enforceFinalTag, state.inlineCode).processed,
                thinking |->
                    \/ inThinking
                    \/ \E k \in 1..Len(THINKING_TAG_SCAN_RE(thinkInput)) :
                           ~THINKING_TAG_SCAN_RE(thinkInput)[k].close],
               state, enforceFinalTag)

\* Step 1 of stripBlockTags, pass 2, from lastOrphanedCloseEnd on.
StripThinking(thinkInput, thinkOffset, inThinking, repaired, state, enforceFinalTag) ==
    StripFinal(ThinkPass(THINKING_TAG_SCAN_RE(thinkInput), 1, <<>>, 0,
                         inThinking, thinkInput, thinkOffset, repaired,
                         ~enforceFinalTag, state.inlineCode),
               state, enforceFinalTag)

\* Step 1 of stripBlockTags, after pass 1 found lastOrphanedCloseEnd.
StripAfterOrphans(lastOrphanedCloseEnd, repaired, state, enforceFinalTag) ==
    IF lastOrphanedCloseEnd > 0
    THEN StripThinking(SliceFrom(repaired, lastOrphanedCloseEnd),
                       lastOrphanedCloseEnd, FALSE, repaired, state,
                       enforceFinalTag)
    ELSE StripThinking(repaired, 0, state.thinking, repaired, state,
                       enforceFinalTag)

\* stripBlockTags on the repaired text.
StripRepaired(repaired, state, enforceFinalTag) ==
    StripAfterOrphans(
        OrphanedCloseEnd(THINKING_TAG_SCAN_RE(repaired), 1, state.thinking,
                         -1, repaired, ~enforceFinalTag, state.inlineCode),
        repaired, state, enforceFinalTag)

\* stripBlockTags(text, state) with params.enforceFinalTag: the text returned
\* and the state it leaves ([thinking, final, inlineCode]).
stripBlockTags(text, state, enforceFinalTag) ==
    IF text = <<>> THEN [text |-> text, state |-> state]
    ELSE StripRepaired(repairMalformedReasoningTags(text), state,
                       enforceFinalTag)


-----------------------------------------------------------------------------
(***************************************************************************)
(* SpecScan: a logical text is cut into chunks and fed to the scanner in   *)
(* enforcement mode, the block state carried from chunk to chunk.          *)
(***************************************************************************)

\* Bounds of the scanner's inputs: the chunks a text is cut into and the
\* length of a text put together freely from pieces.
MaxChunks == 2
MaxLen == 16

ThinkOpen  == <<"<","t","h","i","n","k",">">>
ThinkClose == <<"<","/","t","h","i","n","k",">">>
FinalOpen  == <<"<","f","i","n","a","l",">">>
FinalClose == <<"<","/","f","i","n","a","l",">">>

\* Thinking content ("s" marks reasoning text) and reply content.
ThinkTexts == { <<>>, <<"s">>, <<"s"," ","<","s">>,
                <<"r","e","a","s","o","n","i","n","g">> }
FinalTexts == { <<>>, <<"a">>, <<"a","\n","b">>, <<"H","e","l","l","o">> }

Pieces == { ThinkOpen, ThinkClose, FinalOpen, FinalClose, <<"s">>, <<"a">> }

RECURSIVE Flatten(_)
Flatten(ps) == IF ps = <<>> THEN <<>> ELSE Head(ps) \o Flatten(Tail(ps))

\* Reading a sequence of pieces as the protocol means it: whether reasoning
\* text placed after the first k pieces lies inside a thinking span, that is,
\* after an opening thinking tag with neither a closing thinking tag nor an
\* opening final tag (where the repairer closes the span) since.
RECURSIVE InThinkingSpan(_, _)
InThinkingSpan(ps, k) ==
    IF k = 0 THEN FALSE
    ELSE IF ps[k] = ThinkOpen THEN TRUE
    ELSE IF ps[k] \in {ThinkClose, FinalOpen} THEN FALSE
    ELSE InThinkingSpan(ps, k - 1)

\* Reasoning text ("s") stands only inside thinking spans, other text ("a")
\* only outside them.
WellMarked(ps) ==
    \A k \in 1..Len(ps) :
        /\ ps[k] = <<"s">> => InThinkingSpan(ps, k - 1)
        /\ ps[k] = <<"a">> => ~InThinkingSpan(ps, k - 1)

\* The well-marked sequences of at most n pieces whose text has at most
\* MaxLen characters.
RECURSIVE PieceSeqsUpTo(_)
PieceSeqsUpTo(n) ==
    IF n = 0 THEN {}
    ELSE LET shorter == PieceSeqsUpTo(n - 1)
         IN  { q \in { Append(ps, p) : ps \in shorter \cup {<<>>},
                                       p \in Pieces } :
                   Len(Flatten(q)) <= MaxLen /\ WellMarked(q) }
             \cup shorter

PieceSeqs == PieceSeqsUpTo(MaxLen)

ScanInputs ==
    { [kind |-> "wellformed", T |-> t, F |-> f,
       text |-> ThinkOpen \o t \o ThinkClose \o FinalOpen \o f \o FinalClose] :
         t \in ThinkTexts, f \in FinalTexts }
    \cup
    { [kind |-> "unclosed", T |-> t, F |-> f,
       text |-> ThinkOpen \o t \o FinalOpen \o f \o FinalClose] :
         t \in ThinkTexts, f \in FinalTexts }
    \cup
    { [kind |-> "free", T |-> <<>>, F |-> <<>>, text |-> Flatten(ps)] :
         ps \in PieceSeqs }

\* blockState: { thinking: false, final: false, inlineCode: createInlineCodeState() }
InitialBlockState == [thinking |-> FALSE, final |-> FALSE, inlineCode |-> FALSE]

\* emitBlockChunk's call stripBlockTags(text, state.blockState) on the next
\* chunk of n characters.
FeedChunk(n) ==
    /\ n \in 1..Len(rest)
    /\ nFed < MaxChunks
    /\ nFed = MaxChunks - 1 => n = Len(rest)
    /\ LET chunk == Slice(rest, 0, n)
           r     == stripBlockTags(chunk, blockState, TRUE)
       IN  /\ lastChunk' = chunk
           /\ lastCall' = [before |-> blockState, text |-> r.text]
           /\ blockState' = r.state
           /\ out' = out \o r.text
    /\ rest' = SliceFrom(rest, n)
    /\ nFed' = nFed + 1
    /\ UNCHANGED <<scanInput, notScan>>

ScanNext == \E n \in 1..Len(rest) : FeedChunk(n)

-----------------------------------------------------------------------------
(***************************************************************************)
(* SpecRepair: one call of repairMalformedReasoningTags on a text put      *)
(* together from tags.                                                     *)
(***************************************************************************)

\* Bound: the tags and characters a text to repair is put together from.
MaxTags == 4

RepairPieces == { ThinkOpen, ThinkClose, FinalOpen, FinalClose, <<"a">> }

RECURSIVE TagSeqsUpTo(_)
TagSeqsUpTo(n) ==
    IF n = 0 THEN { <<>> }
    ELSE LET shorter == TagSeqsUpTo(n - 1)
         IN  { Append(ps, p) : ps \in shorter, p \in RepairPieces }
             \cup shorter

RepairInputs ==
    { [kind |-> "pieces", T |-> <<>>, F |-> <<>>, text |-> Flatten(ps),
       ps |-> ps] : ps \in TagSeqsUpTo(MaxTags) }

\* repairMalformedReasoningTags(text) is called on the input.
RepairCall ==
    /\ scanInput.kind = "pieces"
    /\ nFed = 0
    /\ out' = repairMalformedReasoningTags(scanInput.text)
    /\ lastChunk' = scanInput.text
    /\ nFed' = 1
    /\ UNCHANGED <<scanInput, rest, lastCall, blockState, notScan>>

RepairNext == RepairCall

-----------------------------------------------------------------------------
(***************************************************************************)
(* SpecOrphan: one call of the scanner on a chunk put together from tags,  *)
(* from any carried thinking and final state, enforcement mode on or off.  *)
(***************************************************************************)

OrphanInputs ==
    { [kind |-> "chunk", T |-> <<>>, F |-> <<>>, text |-> Flatten(ps),
       ps |-> ps, enforceFinalTag |-> e] :
         ps \in TagSeqsUpTo(MaxTags), e \in BOOLEAN }

\* stripBlockTags(text, state.blockState) is called on the chunk.
OrphanCall ==
    /\ scanInput.kind = "chunk"
    /\ nFed = 0
    /\ \E r \in { stripBlockTags(scanInput.text, blockState,
                                 scanInput.enforceFinalTag) } :
           /\ lastCall' = [before |-> blockState, text |-> r.text]
           /\ blockState' = r.state
           /\ out' = r.text
    /\ lastChunk' = scanInput.text
    /\ nFed' = 1
    /\ UNCHANGED <<scanInput, rest, notScan>>

OrphanNext == OrphanCall

-----------------------------------------------------------------------------
(***************************************************************************)
(* SpecCall: one call of the scanner on a whole text from the initial      *)
(* block state, enforcement mode on or off.                                *)
(***************************************************************************)

\* Bound: the pieces a text of a single call is put together from.
MaxPieces == 3

\* Characters that tags are made of, tag names, and plain text.
CallPieces ==
    { <<"a">>, <<" ">>, <<"<">>, <<"/">>, <<">">>, <<Backtick>>,
      <<"f","i","n","a","l">>, <<"t","h","i","n","k">> }

RECURSIVE CallTextsUpTo(_)
CallTextsUpTo(n) ==
    IF n = 0 THEN { <<>> }
    ELSE CallTextsUpTo(n - 1)
         \cup { t \o p : t \in CallTextsUpTo(n - 1), p \in CallPieces }

CallInputs ==
    { [kind |-> k, T |-> <<>>, F |-> <<>>, text |-> t] :
        k \in {"enforced", "unenforced"}, t \in CallTextsUpTo(MaxPieces) }

\* QUICK_TAG_RE.test(s), /<\s*\/?\s*(?:think(?:ing)?|thought|antthinking|final)\b/i:
\* whether s holds a thinking or final tag marker.
QuickTagAt(s, i) ==
    /\ CharAt(s, i) = "<"
    /\ \E j \in { SkipSpace(s, i + 1) } :
         \E k \in { IF CharAt(s, j) = "/" THEN SkipSpace(s, j + 1) ELSE j } :
            \E w \in ThinkingNames \cup FinalNames :
                WordAt(s, k, w) /\ ~IsWordChar(CharAt(s, k + Len(w)))

QUICK_TAG_RE(s) == \E i \in 0..(Len(s) - 1) : QuickTagAt(s, i)

\* stripBlockTags(text, state.blockState) on the whole text.
StripOnce ==
    /\ nFed = 0
    /\ LET r == stripBlockTags(rest, blockState, scanInput.kind = "enforced")
       IN  /\ lastChunk' = rest
           /\ lastCall' = [before |-> blockState, text |-> r.text]
           /\ blockState' = r.state
           /\ out' = r.text
    /\ rest' = <<>>
    /\ nFed' = 1
    /\ UNCHANGED <<scanInput, notScan>>

CallNext == StripOnce


-----------------------------------------------------------------------------
(***************************************************************************)
(* SpecRot: the key-rotation stream wrapper (wrapStreamFnWithKeyRotation). *)
(* One wrapped call runs at a time; its async body is followed from one    *)
(* await to the next.                                                      *)
(***************************************************************************)

\* Bound: the number of wrapped calls made one after the other.
MaxCalls == 2

\* The candidate lists tried (0 stands for an undefined candidate).
CandidateLists == { <<>>, <<1>>, <<1, 2>>, <<1, 2, 3>>, <<0, 1, 2>> }

\* The models called: one safe by its api, one by an api that
\* isGoogleModelApi takes, one by its id, and one that is not safe.
Models ==
    { [api |-> "google-generative-ai", id |-> <<"x">>],
      [api |-> "google-gemini-cli",    id |-> <<"x">>],
      [api |-> "openrouter",           id |-> <<"a","/","G","e","m","i","n","i">>],
      [api |-> "anthropic-messages",   id |-> <<"c","l","a","u","d","e">>] }

NoModel == [api |-> "", id |-> <<>>]

\* isGoogleModelApi(api)
isGoogleModelApi(api) ==
    api \in {"google-gemini-cli", "google-generative-ai", "google-antigravity"}

\* A check that knows the Google apis only, not the model ids.
canSafelyRotate_ApiOnly(model) == isGoogleModelApi(model.api)

\* A check that takes every model as safe.
canSafelyRotate_Always(model) == TRUE

\* canSafelyRotate(model)
canSafelyRotate(model) ==
    IF model.api = "google-generative-ai" THEN TRUE
    ELSE IF isGoogleModelApi(model.api) THEN TRUE
    ELSE \E i \in 0..(Len(model.id) - 1) :
             WordAt(model.id, i, <<"g","e","m","i","n","i">>)

\* The options the caller passes to the wrapped function: a key that no
\* profile resolves to and a retry count that is not 0.
CallerOptions == [apiKey |-> <<"key", -1>>, maxRetries |-> 2]

Profiles == {1, 2, 3}

\* resolveApiKey(candidate), when it does not throw.
KeyOf(candidate) == <<"key", candidate>>

\* isRateLimitErrorMessage(m) || isOverloadedErrorMessage(m), on the class of
\* the message.
IsRetriableMessage(class) == class \in {"rate_limit", "overloaded"}

\* An event of a provider stream, tagged with the attempt that produced it.
Event(type, class, attempt) == [type |-> type, class |-> class, by |-> attempt]

\* A check that takes a rate-limit message only, not an overloaded one.
isRetriableErrorEvent_RateLimitOnly(event) ==
    event.type = "error" /\ event.class = "rate_limit"

isRetriableErrorEvent(event) ==
    IF event.type # "error" THEN FALSE
    ELSE IsRetriableMessage(event.class)

\* What an underlying stream may do: yield these events, then end or throw.
\* An empty event list that throws is streamFn throwing at the call.
Behaviours ==
    { [types |-> <<"start", "text_delta", "done">>, err |-> "", throws |-> ""],
      [types |-> <<"done">>,                        err |-> "", throws |-> ""],
      [types |-> <<"error">>, err |-> "rate_limit", throws |-> ""],
      [types |-> <<"error">>, err |-> "overloaded", throws |-> ""],
      [types |-> <<"start", "text_delta", "error">>,
                              err |-> "rate_limit", throws |-> ""],
      [types |-> <<"error">>, err |-> "other",      throws |-> ""],
      [types |-> <<"start", "text_delta", "error">>,
                              err |-> "other",      throws |-> ""],
      [types |-> <<>>,                     err |-> "", throws |-> "rate_limit"],
      [types |-> <<>>,                     err |-> "", throws |-> "other"],
      [types |-> <<"start", "text_delta">>, err |-> "", throws |-> "overloaded"],
      [types |-> <<"start", "text_delta">>, err |-> "", throws |-> "other"] }

\* The events of behaviour b, produced by attempt a.
EventsOf(b, a) ==
    [i \in 1..Len(b.types) |->
        Event(b.types[i], IF b.types[i] = "error" THEN b.err ELSE "", a)]

\* The wrapper's own error events (by = -1): the non-retriable error of the
\* catch block and the "all keys exhausted" error.
SyntheticError(class) == Event("error", class, -1)
ExhaustedError == Event("error", "all_exhausted", -1)

\* createKeyRotationState()
createKeyRotationState ==
    [allKeysExhausted |-> FALSE, lastProfileId |-> 0, rotationIndex |-> 0]

\* The control state of a wrapped call.  Ghost: model, the model of the
\* call; exhaustedAtStart, allKeysExhausted as the call found it;
\* stateAtStart, the rotation state as a passed-through call found it.
RotIdleControl ==
    [pc |-> "idle", callNo |-> 0, attempt |-> 0, candidateIndex |-> 0,
     startIndex |-> 0, cooldownAtStart |-> {},
     model |-> NoModel, exhaustedAtStart |-> FALSE,
     stateAtStart |-> createKeyRotationState,
     inner |-> <<>>, innerThrows |-> "", events |-> <<>>,
     rateLimitEvent |-> FALSE]

\* isProfileInCooldown(authStore, candidate)
isProfileInCooldown(store, candidate) == candidate \in store

\* A failure that is logged without marking a cooldown.
setCooldownInMemory_NoMark(store, profileId) == store

\* setCooldownInMemory(store, profileId): cooldownUntil moves into the future.
setCooldownInMemory(store, profileId) == store \cup {profileId}

\* A rotation that starts one candidate too far.
CandidateIndexOf_OffByOne(attempt) ==
    (rotationState.rotationIndex + attempt + 1) % Len(profileCandidates)

\* const candidateIndex = (rotationState.rotationIndex + attempt) % length
CandidateIndexOf(attempt) ==
    (rotationState.rotationIndex + attempt) % Len(profileCandidates)

\* outputStream.push(event)
Push(stream, event) == [stream EXCEPT !.events = Append(@, event)]

RECURSIVE PushAll(_, _)
PushAll(stream, events) ==
    IF events = <<>> THEN stream
    ELSE PushAll(Push(stream, Head(events)), Tail(events))

\* A path that returns without ending the output stream.
End_Forgotten(stream) == stream

\* outputStream.end()
End(stream) == [stream EXCEPT !.ended = TRUE]

\* A call that leaves the exhaustion flag as it finds it.
StartOfCall_NoReset(state) == state

\* The start of the async body: rotationState.allKeysExhausted = false.
StartOfCall(state) == [state EXCEPT !.allKeysExhausted = FALSE]

\* A rotation index that is not taken modulo the number of candidates.
NextRotationIndex_NoWrap(candidateIndex) == candidateIndex + 1

\* (candidateIndex + 1) % profileCandidates.length
NextRotationIndex(candidateIndex) ==
    (candidateIndex + 1) % Len(profileCandidates)

\* The wrapped function is called with a model that is safe to rotate, there
\* being two candidates or more: a fresh output stream, and the async body
\* runs up to its loop (allKeysExhausted is reset first).
BeginCall(model) ==
    /\ rot.pc = "idle"
    /\ rot.callNo < MaxCalls
    /\ Len(profileCandidates) > 1
    /\ canSafelyRotate(model)
    /\ outputStream' = [events |-> <<>>, ended |-> FALSE]
    /\ rotationState' = StartOfCall(rotationState)
    /\ rot' = [RotIdleControl EXCEPT !.pc = "loop", !.callNo = rot.callNo + 1,
                                     !.startIndex = rotationState.rotationIndex,
                                     !.cooldownAtStart = authStore,
                                     !.model = model,
                                     !.exhaustedAtStart =
                                         rotationState.allKeysExhausted]
    /\ calls' = <<>>
    /\ attempts' = <<>>
    /\ UNCHANGED <<profileCandidates, authStore, notRot>>

\* The loop meets a candidate in a cooldown window: continue.
SkipCooldown ==
    /\ rot.pc = "loop"
    /\ rot.attempt < Len(profileCandidates)
    /\ LET candidateIndex == CandidateIndexOf(rot.attempt)
           candidate      == profileCandidates[candidateIndex + 1]
       IN  /\ candidate # 0 /\ isProfileInCooldown(authStore, candidate)
           /\ attempts' = Append(attempts,
                 [candidateIndex |-> candidateIndex, outcome |-> "cooldown",
                  produced |-> <<>>, threw |-> ""])
    /\ rot' = [rot EXCEPT !.attempt = @ + 1]
    /\ UNCHANGED <<profileCandidates, rotationState, authStore, outputStream,
                   calls, notRot>>

\* await resolveApiKey(candidate) throws: continue.
ResolveFails ==
    /\ rot.pc = "loop"
    /\ rot.attempt < Len(profileCandidates)
    /\ LET candidateIndex == CandidateIndexOf(rot.attempt)
           candidate      == profileCandidates[candidateIndex + 1]
       IN  /\ ~(candidate # 0 /\ isProfileInCooldown(authStore, candidate))
           /\ attempts' = Append(attempts,
                 [candidateIndex |-> candidateIndex,
                  outcome |-> "resolve_failed", produced |-> <<>>,
                  threw |-> ""])
    /\ rot' = [rot EXCEPT !.attempt = @ + 1]
    /\ UNCHANGED <<profileCandidates, rotationState, authStore, outputStream,
                   calls, notRot>>

\* The key resolves and streamFn(model, context, callOptions) is called with
\* it; b is what the underlying stream will do.
CallStreamFn(b) ==
    /\ rot.pc = "loop"
    /\ rot.attempt < Len(profileCandidates)
    /\ LET candidateIndex == CandidateIndexOf(rot.attempt)
           candidate      == profileCandidates[candidateIndex + 1]
       IN  /\ ~(candidate # 0 /\ isProfileInCooldown(authStore, candidate))
           /\ rotationState' =
                 IF candidate # 0
                 THEN [rotationState EXCEPT !.lastProfileId = candidate]
                 ELSE rotationState
           /\ calls' = Append(calls,
                 [attempt |-> rot.attempt, candidateIndex |-> candidateIndex,
                  apiKey |-> KeyOf(candidate), maxRetries |-> 0])
           /\ rot' = [rot EXCEPT !.pc = "consume",
                                 !.candidateIndex = candidateIndex,
                                 !.inner = EventsOf(b, rot.attempt),
                                 !.innerThrows = b.throws,
                                 !.events = <<>>,
                                 !.rateLimitEvent = FALSE]
           /\ attempts' = Append(attempts,
                 [candidateIndex |-> candidateIndex, outcome |-> "running",
                  produced |-> <<>>, threw |-> ""])
    /\ UNCHANGED <<profileCandidates, authStore, outputStream,
                   notRot>>

\* for await (const event of innerStream): one event is taken.
ConsumeEvent ==
    /\ rot.pc = "consume"
    /\ rot.inner # <<>>
    /\ LET event == Head(rot.inner)
       IN  /\ rot' = [rot EXCEPT
                        !.inner = Tail(@),
                        !.rateLimitEvent =
                            IF isRetriableErrorEvent(event) THEN TRUE ELSE @,
                        !.events =
                            IF isRetriableErrorEvent(event) THEN @
                            ELSE Append(@, event)]
           /\ attempts' = [attempts EXCEPT
                             ![Len(attempts)].produced = Append(@, event)]
    /\ UNCHANGED <<profileCandidates, rotationState, authStore, outputStream,
                   calls, notRot>>

\* The inner stream has ended: a rate-limit event sends the loop to the next
\* candidate, otherwise the collected events are replayed and the call ends.
InnerStreamEnds ==
    /\ rot.pc = "consume"
    /\ rot.inner = <<>>
    /\ rot.innerThrows = ""
    /\ LET candidate == profileCandidates[rot.candidateIndex + 1]
       IN  IF rot.rateLimitEvent
           THEN /\ authStore' = IF candidate # 0
                                THEN setCooldownInMemory(authStore, candidate)
                                ELSE authStore
                /\ rot' = [rot EXCEPT !.pc = "loop", !.attempt = @ + 1]
                /\ attempts' = [attempts EXCEPT
                                  ![Len(attempts)].outcome = "rate_limit"]
                /\ UNCHANGED <<outputStream, rotationState>>
           ELSE /\ outputStream' = End(PushAll(outputStream, rot.events))
                /\ rotationState' =
                     [rotationState EXCEPT
                        !.rotationIndex = NextRotationIndex(rot.candidateIndex),
                        !.lastProfileId =
                            IF candidate # 0 THEN candidate ELSE @]
                /\ rot' = [rot EXCEPT !.pc = "done"]
                /\ attempts' = [attempts EXCEPT
                                  ![Len(attempts)].outcome = "replayed"]
                /\ UNCHANGED authStore
    /\ UNCHANGED <<profileCandidates, calls, notRot>>

\* streamFn threw, or reading the inner stream did: the catch block.
InnerThrows ==
    /\ rot.pc = "consume"
    /\ rot.inner = <<>>
    /\ rot.innerThrows # ""
    /\ LET candidate == profileCandidates[rot.candidateIndex + 1]
       IN  IF IsRetriableMessage(rot.innerThrows)
           THEN /\ authStore' = IF candidate # 0
                                THEN setCooldownInMemory(authStore, candidate)
                                ELSE authStore
                /\ rot' = [rot EXCEPT !.pc = "loop", !.attempt = @ + 1]
                /\ attempts' = [attempts EXCEPT
                                  ![Len(attempts)].outcome = "rate_limit",
                                  ![Len(attempts)].threw = rot.innerThrows]
                /\ UNCHANGED outputStream
           ELSE /\ outputStream' =
                     End(Push(outputStream, SyntheticError(rot.innerThrows)))
                /\ rot' = [rot EXCEPT !.pc = "done"]
                /\ attempts' = [attempts EXCEPT
                                  ![Len(attempts)].outcome = "threw",
                                  ![Len(attempts)].threw = rot.innerThrows]
                /\ UNCHANGED authStore
    /\ UNCHANGED <<profileCandidates, rotationState, calls,
                   notRot>>

\* The loop ran out of attempts: all keys exhausted.
AllKeysExhausted ==
    /\ rot.pc = "loop"
    /\ rot.attempt >= Len(profileCandidates)
    /\ rotationState' =
         [rotationState EXCEPT
            !.allKeysExhausted = TRUE,
            !.rotationIndex =
                (@ + Len(profileCandidates)) % Len(profileCandidates)]
    /\ outputStream' = End(Push(outputStream, ExhaustedError))
    /\ rot' = [rot EXCEPT !.pc = "done"]
    /\ UNCHANGED <<profileCandidates, authStore, calls, attempts,
                   notRot>>

\* The wrapper was made with fewer than two candidates (it is the underlying
\* function itself), or the model is not safe to rotate: streamFn(model,
\* context, options) is called and its stream returned; b is what that
\* stream does.
PassThrough(model, b) ==
    /\ rot.pc = "idle"
    /\ rot.callNo < MaxCalls
    /\ Len(profileCandidates) <= 1 \/ ~canSafelyRotate(model)
    /\ calls' = <<[attempt |-> 0, candidateIndex |-> -1,
                   apiKey |-> CallerOptions.apiKey,
                   maxRetries |-> CallerOptions.maxRetries]>>
    /\ attempts' = <<>>
    /\ outputStream' = [events |-> EventsOf(b, 0), ended |-> b.throws = ""]
    /\ rot' = [RotIdleControl EXCEPT !.pc = "passed",
                                     !.callNo = rot.callNo + 1,
                                     !.model = model,
                                     !.inner = EventsOf(b, 0),
                                     !.innerThrows = b.throws,
                                     !.stateAtStart = rotationState]
    /\ UNCHANGED <<profileCandidates, rotationState, authStore, notRot>>

\* The caller has read the output stream to its end; the wrapper is free for
\* the next model call.
CallReturns ==
    /\ rot.pc \in {"done", "passed"}
    /\ rot' = [rot EXCEPT !.pc = "idle"]
    /\ UNCHANGED <<profileCandidates, rotationState, authStore, outputStream,
                   calls, attempts, notRot>>

\* Between two calls a cooldown window runs out.
CooldownExpires(p) ==
    /\ rot.pc = "idle"
    /\ p \in authStore
    /\ authStore' = authStore \ {p}
    /\ UNCHANGED <<profileCandidates, rotationState, rot, outputStream, calls,
                   attempts, notRot>>

RotNext ==
    \/ \E model \in Models : BeginCall(model)
    \/ \E model \in Models, b \in Behaviours : PassThrough(model, b)
    \/ SkipCooldown
    \/ ResolveFails
    \/ \E b \in Behaviours : CallStreamFn(b)
    \/ ConsumeEvent
    \/ InnerStreamEnds
    \/ InnerThrows
    \/ AllKeysExhausted
    \/ CallReturns
    \/ \E p \in Profiles : CooldownExpires(p)


-----------------------------------------------------------------------------
(***************************************************************************)
(* SpecSub: the subscription's assistantTexts and the messaging-tool dedup *)
(* guard, driven by tool_execution_start/end, message_start, message_end.  *)
(***************************************************************************)

\* Bounds: messaging-tool sends and assistant messages of one turn.
MaxSends == 2
MaxMessages == 2

\* The texts of a turn: two that differ only in case and white space, and
\* one that differs.
TurnTexts == { <<"H","i">>, <<"h","i"," ">>, <<"O","K">> }

\* String.prototype.trimEnd()
RECURSIVE trimEnd(_)
trimEnd(t) ==
    IF t # <<>> /\ IsSpace(t[Len(t)]) THEN trimEnd(SubSeq(t, 1, Len(t) - 1))
    ELSE t

\* String.prototype.trimStart()
RECURSIVE trimStart(_)
trimStart(t) == IF t # <<>> /\ IsSpace(Head(t)) THEN trimStart(Tail(t)) ELSE t

\* .replace(/\s+/g, " ")
RECURSIVE FoldSpaces(_)
FoldSpaces(t) ==
    IF t = <<>> THEN <<>>
    ELSE IF IsSpace(Head(t))
    THEN <<" ">> \o FoldSpaces(trimStart(t))
    ELSE <<ToLower(Head(t))>> \o FoldSpaces(Tail(t))

\* normalizeTextForComparison(text): trimmed, lower case, white space folded.
normalizeTextForComparison(text) == FoldSpaces(trimEnd(trimStart(text)))

\* isMessagingToolDuplicateNormalized(normalized, normalizedSentTexts)
isMessagingToolDuplicateNormalized(normalized, normalizedSentTexts) ==
    /\ normalized # <<>>
    /\ \E i \in 1..Len(normalizedSentTexts) :
           normalizedSentTexts[i] # <<>> /\ normalizedSentTexts[i] = normalized

\* The subscription state of subscribeEmbeddedPiSession (Undefined stands for undefined).
Undefined == <<"undefined">>

\* Ghost: the emitBlockChunk call that came last, if no message_start or
\* message_end came after it: the chunk it made of its text, whether it
\* added to assistantTexts, whether it made a block reply, whether the call
\* before it made the same chunk, whether it added an entry equal to the one
\* before it in assistantTexts and from the same message, whether the chunk
\* repeats a successful send older than the most recent one and not the
\* most recent one, and whether the chunk was the last block reply or the
\* last assistant text.
NoEmit == [chunk |-> Undefined, added |-> FALSE, replied |-> FALSE,
           repeat |-> FALSE, adjacent |-> FALSE, olderSend |-> FALSE,
           otherSkip |-> FALSE, suppressed |-> FALSE]

\* Ghost: the authoritative text that finalizeAssistantTexts wrote for the
\* assistant message under way (reasoning included, no block-reply
\* callback), with assistantTexts as it left them and whether the text took
\* the place of entries added since assistantTextBaseline.
NoWrite == [done |-> FALSE, texts |-> <<>>, replaced |-> FALSE]

\* Ghost: the resetForCompactionRetry call that came last, with the
\* subscription state, the block state, the compaction state and the
\* promises as it found them.
NoReset == [done |-> FALSE]

\* Ghost fields of the state below: messageStartLen, the length of
\* assistantTexts at the last message_start, lastEmit, written and reset.
\* The pending maps are lists in the order of their tool calls.
InitialSubState ==
    [assistantTexts |-> <<>>,
     assistantTextBaseline |-> 0,
     assistantMessageIndex |-> 0,
     lastAssistantTextMessageIndex |-> -1,
     lastAssistantTextNormalized |-> Undefined,
     lastAssistantTextTrimmed |-> Undefined,
     lastBlockReplyText |-> Undefined,
     suppressBlockChunks |-> FALSE,
     messagingToolSentTexts |-> <<>>,
     messagingToolSentTextsNormalized |-> <<>>,
     messagingToolSentTargets |-> <<>>,
     messagingToolSentMediaUrls |-> <<>>,
     pendingMessagingTexts |-> <<>>,
     pendingMessagingTargets |-> <<>>,
     pendingMessagingMediaUrls |-> <<>>,
     nMessages |-> 0,
     messageStartLen |-> 0,
     lastEmit |-> NoEmit,
     written |-> NoWrite,
     reset |-> NoReset]

\* Ghost: the last message_end, with its text, the texts kept, the block
\* replies made and the sends completed before it, and whether the text was
\* the first one its assistant message finalized.
NoEnd == [text |-> <<>>, textsBefore |-> <<>>, repliesBefore |-> <<>>,
          logBefore |-> <<>>, first |-> FALSE]

rememberAssistantText(st, text) ==
    LET normalized == normalizeTextForComparison(text)
    IN  [st EXCEPT
           !.lastAssistantTextMessageIndex = st.assistantMessageIndex,
           !.lastAssistantTextTrimmed = trimEnd(text),
           !.lastAssistantTextNormalized =
               IF Len(normalized) > 0 THEN normalized ELSE Undefined]

shouldSkipAssistantText(st, text) ==
    IF st.lastAssistantTextMessageIndex # st.assistantMessageIndex THEN FALSE
    ELSE IF trimEnd(text) # <<>> /\ trimEnd(text) = st.lastAssistantTextTrimmed
    THEN TRUE
    ELSE LET normalized == normalizeTextForComparison(text)
         IN  Len(normalized) > 0 /\ normalized = st.lastAssistantTextNormalized

pushAssistantText(st, text) ==
    IF text = <<>> THEN st
    ELSE IF shouldSkipAssistantText(st, text) THEN st
    ELSE rememberAssistantText(
             [st EXCEPT !.assistantTexts = Append(@, text)], text)

\* assistantTexts.splice(baseline, length - baseline, text)
SpliceFromBaseline(texts, baseline, text) ==
    Append(SubSeq(texts, 1, baseline), text)

\* A finalizer without the messaging-tool dedup check.
finalizeAssistantTexts_NoDedup(st, text, addedDuringMessage, chunkerHasBuffered) ==
    LET st1 == IF ~addedDuringMessage /\ ~chunkerHasBuffered /\ text # <<>>
               THEN pushAssistantText(st, text)
               ELSE st
    IN  [st1 EXCEPT !.assistantTextBaseline = Len(st1.assistantTexts)]

\* A finalizer that writes the authoritative text and lets later block chunks
\* through.
finalizeAssistantTexts_NoSuppress(st, text, addedDuringMessage, chunkerHasBuffered) ==
    LET sent     == st.messagingToolSentTextsNormalized
        lastSent == sent[Len(sent)]
    IN
    IF /\ text # <<>>
       /\ Len(sent) > 0
       /\ isMessagingToolDuplicateNormalized(
              normalizeTextForComparison(text), <<lastSent>>)
    THEN [st EXCEPT !.assistantTextBaseline = Len(st.assistantTexts)]
    ELSE
    LET st1 ==
          IF subParams.includeReasoning /\ text # <<>>
             /\ ~subParams.onBlockReply
          THEN IF Len(st.assistantTexts) > st.assistantTextBaseline
               THEN rememberAssistantText(
                        [st EXCEPT !.assistantTexts =
                            SpliceFromBaseline(@, st.assistantTextBaseline,
                                               text)], text)
               ELSE pushAssistantText(st, text)
          ELSE IF ~addedDuringMessage /\ ~chunkerHasBuffered /\ text # <<>>
          THEN pushAssistantText(st, text)
          ELSE st
    IN  [st1 EXCEPT !.assistantTextBaseline = Len(st1.assistantTexts)]

\* finalizeAssistantTexts({ text, addedDuringMessage, chunkerHasBuffered })
finalizeAssistantTexts(st, text, addedDuringMessage, chunkerHasBuffered) ==
    LET sent     == st.messagingToolSentTextsNormalized
        lastSent == sent[Len(sent)]
    IN
    IF /\ text # <<>>
       /\ Len(sent) > 0
       /\ isMessagingToolDuplicateNormalized(
              normalizeTextForComparison(text), <<lastSent>>)
    THEN [st EXCEPT !.assistantTextBaseline = Len(st.assistantTexts)]
    ELSE
    LET st1 ==
          IF subParams.includeReasoning /\ text # <<>>
             /\ ~subParams.onBlockReply
          THEN [ (IF Len(st.assistantTexts) > st.assistantTextBaseline
                  THEN rememberAssistantText(
                           [st EXCEPT !.assistantTexts =
                               SpliceFromBaseline(@, st.assistantTextBaseline,
                                                  text)], text)
                  ELSE pushAssistantText(st, text))
                 EXCEPT !.suppressBlockChunks = TRUE ]
          ELSE IF ~addedDuringMessage /\ ~chunkerHasBuffered /\ text # <<>>
          THEN pushAssistantText(st, text)
          ELSE st
    IN  [st1 EXCEPT !.assistantTextBaseline = Len(st1.assistantTexts)]

\* resetAssistantMessageState(nextAssistantTextBaseline), on the fields kept
\* here (the block state is reset by the action that uses it).
resetAssistantMessageState(st, nextAssistantTextBaseline) ==
    [st EXCEPT !.lastBlockReplyText = Undefined,
               !.suppressBlockChunks = FALSE,
               !.assistantMessageIndex = @ + 1,
               !.lastAssistantTextMessageIndex = -1,
               !.lastAssistantTextNormalized = Undefined,
               !.lastAssistantTextTrimmed = Undefined,
               !.assistantTextBaseline = nextAssistantTextBaseline]

MAX_MESSAGING_SENT_TEXTS == 200
MAX_MESSAGING_SENT_TARGETS == 200
MAX_MESSAGING_SENT_MEDIA_URLS == 200

\* Array.prototype.splice(0, overflow), for what is left in the array.
Splice0(list, overflow) == SubSeq(list, overflow + 1, Len(list))

\* A trim that cuts the sent texts and leaves their normalized forms.
trimMessagingToolSent_TextsOnly(st) ==
    IF Len(st.messagingToolSentTexts) > MAX_MESSAGING_SENT_TEXTS
    THEN [st EXCEPT !.messagingToolSentTexts =
                        Splice0(@, Len(@) - MAX_MESSAGING_SENT_TEXTS)]
    ELSE st

\* trimMessagingToolSent()
trimMessagingToolSent(st) ==
    LET st1 ==
          IF Len(st.messagingToolSentTexts) > MAX_MESSAGING_SENT_TEXTS
          THEN LET overflow == Len(st.messagingToolSentTexts)
                                   - MAX_MESSAGING_SENT_TEXTS
               IN  [st EXCEPT
                      !.messagingToolSentTexts = Splice0(@, overflow),
                      !.messagingToolSentTextsNormalized =
                          Splice0(@, overflow)]
          ELSE st
        st2 ==
          IF Len(st1.messagingToolSentTargets) > MAX_MESSAGING_SENT_TARGETS
          THEN LET overflow == Len(st1.messagingToolSentTargets)
                                   - MAX_MESSAGING_SENT_TARGETS
               IN  [st1 EXCEPT
                      !.messagingToolSentTargets = Splice0(@, overflow)]
          ELSE st1
    IN  IF Len(st2.messagingToolSentMediaUrls) > MAX_MESSAGING_SENT_MEDIA_URLS
        THEN LET overflow == Len(st2.messagingToolSentMediaUrls)
                                 - MAX_MESSAGING_SENT_MEDIA_URLS
             IN  [st2 EXCEPT
                    !.messagingToolSentMediaUrls = Splice0(@, overflow)]
        ELSE st2

\* tool_execution_start of a messaging tool send: the text is held as
\* pending, not yet used for suppression.
ToolExecutionStart(text) ==
    /\ Len(toolLog) + Len(sub.pendingMessagingTexts) < MaxSends
    /\ sub' = [sub EXCEPT !.pendingMessagingTexts = Append(@, text)]
    /\ UNCHANGED <<subParams, blockReplies, toolLog, lastEnd,
                   notSub>>

\* tool_execution_end: the pending text is committed to the sent records
\* only when the tool did not fail.
ToolExecutionEnd(isError) ==
    /\ sub.pendingMessagingTexts # <<>>
    /\ LET text == Head(sub.pendingMessagingTexts)
           st1  == [sub EXCEPT !.pendingMessagingTexts = Tail(@)]
       IN  /\ sub' =
                IF isError THEN st1
                ELSE trimMessagingToolSent(
                       [st1 EXCEPT
                          !.messagingToolSentTexts = Append(@, text),
                          !.messagingToolSentTextsNormalized =
                              Append(@, normalizeTextForComparison(text))])
           /\ toolLog' = Append(toolLog, [text |-> text, isError |-> isError])
    /\ UNCHANGED <<subParams, blockReplies, lastEnd,
                   notSub>>

\* Bounds: the sends recorded on top of those the subscription starts with,
\* and the media URLs of one send.
MaxRecorded == 2
MaxUrls == 2

Digits == <<"0", "1", "2", "3", "4", "5", "6", "7", "8", "9">>

DigitsOf(k) ==
    <<Digits[((k \div 100) % 10) + 1], Digits[((k \div 10) % 10) + 1],
      Digits[(k % 10) + 1]>>

DigitValue(c) == CHOOSE d \in 0..9 : Digits[d + 1] = c

\* The number written in the last three characters of a text.
SerialOf(t) ==
    100 * DigitValue(t[Len(t) - 2]) + 10 * DigitValue(t[Len(t) - 1])
        + DigitValue(t[Len(t)])

\* The text, the target and the media URL number k that a messaging tool
\* sends: all different.
TextOf(k) == <<"H", "i", " ">> \o DigitsOf(k)
TargetOf(k) == [provider |-> "telegram", to |-> k]
UrlOf(k) == <<"u", "/">> \o DigitsOf(k)

\* The subscription after nTexts sends with a text, nTargets with a target
\* and nUrls media URLs, all successful, none of them trimmed away so far.
AfterSends(nTexts, nTargets, nUrls) ==
    [InitialSubState EXCEPT
       !.messagingToolSentTexts = [i \in 1..nTexts |-> TextOf(i)],
       !.messagingToolSentTextsNormalized =
           [i \in 1..nTexts |-> normalizeTextForComparison(TextOf(i))],
       !.messagingToolSentTargets = [i \in 1..nTargets |-> TargetOf(i)],
       !.messagingToolSentMediaUrls = [i \in 1..nUrls |-> UrlOf(i)]]

\* The numbers of entries the lists start with: none, one below the cap, and
\* the cap.
InitLens == {0, MAX_MESSAGING_SENT_TEXTS - 1, MAX_MESSAGING_SENT_TEXTS}

\* tool_execution_start of a messaging tool send with a text, a target and
\* nUrls media URLs: all three are held as pending.
SendStart(nUrls) ==
    /\ Len(toolLog) + Len(sub.pendingMessagingTexts) < MaxRecorded
    /\ LET pT == Len(sub.pendingMessagingTexts)
           pU == Flatten(sub.pendingMessagingMediaUrls)
           sT == sub.messagingToolSentTexts
           sG == sub.messagingToolSentTargets
           sU == sub.messagingToolSentMediaUrls
           kT == (IF sT = <<>> THEN 0 ELSE SerialOf(sT[Len(sT)])) + pT + 1
           kG == (IF sG = <<>> THEN 0 ELSE sG[Len(sG)].to) + pT + 1
           kU == IF pU # <<>> THEN SerialOf(pU[Len(pU)]) + 1
                 ELSE (IF sU = <<>> THEN 0 ELSE SerialOf(sU[Len(sU)])) + 1
       IN  /\ sub' = [sub EXCEPT
                        !.pendingMessagingTexts = Append(@, TextOf(kT)),
                        !.pendingMessagingTargets = Append(@, TargetOf(kG)),
                        !.pendingMessagingMediaUrls =
                            Append(@, [i \in 1..nUrls |-> UrlOf(kU + i - 1)])]
    /\ UNCHANGED <<subParams, blockReplies, toolLog, lastEnd, notSub>>

\* tool_execution_end of that send, without error: the pending text, target
\* and media URLs are committed to the sent records, each followed by
\* trimMessagingToolSent.
SendEnd ==
    /\ sub.pendingMessagingTargets # <<>>
    /\ LET text   == Head(sub.pendingMessagingTexts)
           target == Head(sub.pendingMessagingTargets)
           urls   == Head(sub.pendingMessagingMediaUrls)
           st1 == trimMessagingToolSent(
                    [sub EXCEPT
                       !.pendingMessagingTexts = Tail(@),
                       !.messagingToolSentTexts = Append(@, text),
                       !.messagingToolSentTextsNormalized =
                           Append(@, normalizeTextForComparison(text))])
           st2 == trimMessagingToolSent(
                    [st1 EXCEPT
                       !.pendingMessagingTargets = Tail(@),
                       !.messagingToolSentTargets = Append(@, target)])
       IN  /\ sub' = trimMessagingToolSent(
                        [st2 EXCEPT
                           !.pendingMessagingMediaUrls = Tail(@),
                           !.messagingToolSentMediaUrls = @ \o urls])
           /\ toolLog' = Append(toolLog,
                 [text |-> text, isError |-> FALSE, target |-> target,
                  urls |-> urls])
    /\ UNCHANGED <<subParams, blockReplies, lastEnd, notSub>>

\* Messaging-tool sends on top of records that are at their caps or below.
TrimNext ==
    \/ \E nUrls \in 0..MaxUrls : SendStart(nUrls)
    \/ SendEnd

\* message_start of an assistant message.
MessageStart ==
    /\ sub.nMessages < MaxMessages
    /\ sub.assistantMessageIndex <= sub.nMessages
    /\ sub' = [resetAssistantMessageState(sub, Len(sub.assistantTexts))
                EXCEPT !.messageStartLen = Len(sub.assistantTexts),
                       !.lastEmit = NoEmit,
                       !.written = NoWrite]
    /\ blockState' = InitialBlockState
    /\ UNCHANGED <<subParams, blockReplies, toolLog, lastEnd,
                   scanInput, rest, nFed, lastChunk, lastCall, out,
                   rotVars, compVars, idleVars, nc, extVars>>

\* Bound: the entries of assistantTexts up to which block chunks are emitted.
MaxTexts == 2

\* The texts sent by the messaging tool and finalized at message_end while
\* block chunks are emitted: two that differ.
SentTexts == { <<"H","i">>, <<"O","K">> }

\* stripDowngradedToolCallText(text): no text of the model holds a
\* downgraded tool call ("[Tool Call: ...]", "[Historical context: ...]"),
\* and such a text is returned as it is.
stripDowngradedToolCallText(text) ==
    IF \E i \in 1..Len(text) : text[i] = "[" THEN <<>> ELSE text

\* An emitBlockChunk that checks neither the last block reply nor the last
\* assistant text.
EmitChunk_NoRepeatCheck(st, chunk, onBlockReply) ==
    IF chunk = <<>> THEN [st |-> st, reply |-> FALSE]
    ELSE IF isMessagingToolDuplicateNormalized(
                normalizeTextForComparison(chunk),
                st.messagingToolSentTextsNormalized)
    THEN [st |-> st, reply |-> FALSE]
    ELSE [st |-> rememberAssistantText(
                     [st EXCEPT !.lastBlockReplyText = chunk,
                                !.assistantTexts = Append(@, chunk)], chunk),
          reply |-> onBlockReply]

\* emitBlockChunk from its chunk on: the state it leaves and whether it makes
\* a block reply (the chunk holds no reply directive, so that the reply is
\* the chunk).
EmitChunk(st, chunk, onBlockReply) ==
    IF chunk = <<>> THEN [st |-> st, reply |-> FALSE]
    ELSE IF chunk = st.lastBlockReplyText THEN [st |-> st, reply |-> FALSE]
    ELSE IF isMessagingToolDuplicateNormalized(
                normalizeTextForComparison(chunk),
                st.messagingToolSentTextsNormalized)
    THEN [st |-> st, reply |-> FALSE]
    ELSE IF shouldSkipAssistantText(st, chunk) THEN [st |-> st, reply |-> FALSE]
    ELSE [st |-> rememberAssistantText(
                     [st EXCEPT !.lastBlockReplyText = chunk,
                                !.assistantTexts = Append(@, chunk)], chunk),
          reply |-> onBlockReply]

\* The chunk emitBlockChunk makes of what stripBlockTags returned.
ChunkOf(stripped) == trimEnd(stripDowngradedToolCallText(stripped))

\* The ghost record of an emitBlockChunk call that made `chunk` in state st
\* and left the state st1.
EmitRecord(st, chunk, st1, reply) ==
    [chunk     |-> chunk,
     added     |-> st1.assistantTexts # st.assistantTexts,
     replied   |-> reply,
     repeat    |-> chunk # <<>> /\ chunk = st.lastEmit.chunk,
     adjacent  |-> /\ st1.assistantTexts # st.assistantTexts
                   /\ Len(st.assistantTexts) > st.messageStartLen
                   /\ st.assistantTexts[Len(st.assistantTexts)] = chunk,
     olderSend |-> LET sent == st.messagingToolSentTextsNormalized
                       n    == normalizeTextForComparison(chunk)
                   IN  /\ Len(sent) > 1
                       /\ isMessagingToolDuplicateNormalized(
                              n, SubSeq(sent, 1, Len(sent) - 1))
                       /\ ~isMessagingToolDuplicateNormalized(
                              n, <<sent[Len(sent)]>>),
     otherSkip |-> \/ chunk = st.lastBlockReplyText
                   \/ shouldSkipAssistantText(st, chunk),
     suppressed |-> FALSE]

\* params.enforceFinalTag, which is optional.
EnforceFinalTag ==
    IF "enforceFinalTag" \in DOMAIN subParams THEN subParams.enforceFinalTag
    ELSE FALSE

\* text_end / a flush of the block buffer: emitBlockChunk(text), in an
\* assistant message that has started.  With suppressBlockChunks set the
\* call returns at once.
EmitBlockChunk(text) ==
    /\ sub.assistantMessageIndex > 0
    /\ Len(sub.assistantTexts) < MaxTexts
    /\ IF sub.suppressBlockChunks
       THEN /\ sub' = [sub EXCEPT !.lastEmit =
                                     [NoEmit EXCEPT !.suppressed = TRUE]]
            /\ UNCHANGED <<blockState, blockReplies>>
       ELSE
       \E stripped \in { stripBlockTags(text, blockState, EnforceFinalTag) } :
       \E chunk \in { ChunkOf(stripped.text) } :
       \E r \in { EmitChunk(sub, chunk, subParams.onBlockReply) } :
           /\ sub' = [r.st EXCEPT !.lastEmit =
                                    EmitRecord(sub, chunk, r.st, r.reply)]
           /\ blockState' = stripped.state
           /\ blockReplies' = IF r.reply THEN Append(blockReplies, chunk)
                              ELSE blockReplies
    /\ UNCHANGED <<subParams, toolLog, lastEnd,
                   scanInput, rest, nFed, lastChunk, lastCall, out,
                   rotVars, compVars, idleVars, nc, extVars>>

\* message_end of an assistant message whose text is `text`, with
\* blockReplyBreak "message_end" and no block chunker: the texts are
\* finalized, then the text goes out as a block reply unless it was the last
\* block reply or repeats the most recent messaging-tool send.
MessageEnd(text) ==
    /\ sub.nMessages < MaxMessages
    /\ LET addedDuringMessage ==
               Len(sub.assistantTexts) > sub.assistantTextBaseline
           st1  == finalizeAssistantTexts(sub, text, addedDuringMessage, FALSE)
           sent == st1.messagingToolSentTextsNormalized
           emit == /\ subParams.onBlockReply
                   /\ text # <<>>
                   /\ text # st1.lastBlockReplyText
                   /\ ~(Len(sent) > 0 /\ isMessagingToolDuplicateNormalized(
                            normalizeTextForComparison(text),
                            <<sent[Len(sent)]>>))
       IN  /\ sub' = [ (IF emit THEN [st1 EXCEPT !.lastBlockReplyText = text]
                        ELSE st1) EXCEPT !.nMessages = @ + 1,
                                         !.lastEmit = NoEmit ]
           /\ blockReplies' = IF emit THEN Append(blockReplies, text)
                              ELSE blockReplies
           /\ lastEnd' =
                [text |-> text,
                 textsBefore |-> sub.assistantTexts,
                 repliesBefore |-> blockReplies,
                 logBefore |-> toolLog,
                 first |-> /\ sub.lastAssistantTextMessageIndex
                                 # sub.assistantMessageIndex
                           /\ sub.lastBlockReplyText = Undefined]
    /\ UNCHANGED <<subParams, toolLog, notSub>>

\* message_end as above of the assistant message that has started, the ghost
\* lastEnd left alone and the ghost written kept.
MessageEndStreamed(text) ==
    /\ sub.nMessages < MaxMessages
    /\ sub.assistantMessageIndex = sub.nMessages + 1
    /\ LET addedDuringMessage ==
               Len(sub.assistantTexts) > sub.assistantTextBaseline
           st1  == finalizeAssistantTexts(sub, text, addedDuringMessage, FALSE)
           sent == st1.messagingToolSentTextsNormalized
           emit == /\ subParams.onBlockReply
                   /\ text # <<>>
                   /\ text # st1.lastBlockReplyText
                   /\ ~(Len(sent) > 0 /\ isMessagingToolDuplicateNormalized(
                            normalizeTextForComparison(text),
                            <<sent[Len(sent)]>>))
           wrote == /\ subParams.includeReasoning /\ ~subParams.onBlockReply
                    /\ text # <<>>
                    /\ st1.assistantTexts # sub.assistantTexts
                    /\ st1.assistantTexts =
                           SpliceFromBaseline(sub.assistantTexts,
                                              sub.assistantTextBaseline, text)
       IN  /\ sub' = [ (IF emit THEN [st1 EXCEPT !.lastBlockReplyText = text]
                        ELSE st1) EXCEPT
                          !.nMessages = @ + 1,
                          !.lastEmit = NoEmit,
                          !.written = IF wrote
                                      THEN [done |-> TRUE,
                                            texts |-> st1.assistantTexts,
                                            replaced |-> addedDuringMessage]
                                      ELSE NoWrite ]
           /\ blockReplies' = IF emit THEN Append(blockReplies, text)
                              ELSE blockReplies
    /\ UNCHANGED <<subParams, toolLog, lastEnd, notSub>>

SubNext ==
    \/ \E text \in TurnTexts : ToolExecutionStart(text)
    \/ \E isError \in BOOLEAN : ToolExecutionEnd(isError)
    \/ MessageStart
    \/ \E text \in TurnTexts : MessageEnd(text)

\* The same subscription with block chunks emitted as the text of a message
\* streams in, and messaging-tool sends that succeed.
EmitNext ==
    \/ \E text \in SentTexts : ToolExecutionStart(text)
    \/ ToolExecutionEnd(FALSE)
    \/ MessageStart
    \/ \E text \in SentTexts : MessageEndStreamed(text)
    \/ \E text \in TurnTexts : EmitBlockChunk(text)


-----------------------------------------------------------------------------
(***************************************************************************)
(* SpecComp: the compaction-retry coordinator.  A promise is a number;     *)
(* promises[p] is its settlement.  0 stands for null / undefined.  A       *)
(* promise that neither the state nor a caller holds any more is collected *)
(* and its number used again.                                              *)
(***************************************************************************)

\* Bounds: the retry counter and the promises waitForCompactionRetry returned.
MaxPending == 2
MaxWaiters == 1

\* The promises alive at once: one per caller and the one the state holds.
PromiseIds == 1..(MaxWaiters + 1)

FreePromise == [status |-> "free", settles |-> 0]

CompInitial ==
    [compactionInFlight |-> FALSE,
     pendingCompactionRetry |-> 0,
     compactionRetryResolve |-> 0,
     compactionRetryReject |-> 0,
     compactionRetryPromise |-> 0,
     unsubscribed |-> FALSE,
     sessionUnsubscribeCalls |-> 0,
     abortCompactionCalls |-> 0,
     pendingAtUnsubscribe |-> {},
     settledAfterUnsubscribe |-> FALSE,
     retiredUnsettled |-> FALSE,
     unsubscribedAgain |-> FALSE]

\* A promise's resolve function: it settles the promise the first time only.
ResolvePromise(ps, p) ==
    IF p = 0 THEN ps
    ELSE [ps EXCEPT ![p] = [status  |-> IF @.status = "pending"
                                        THEN "resolved" ELSE @.status,
                            settles |-> @.settles + 1]]

\* A promise's reject function.
RejectPromise(ps, p) ==
    IF p = 0 THEN ps
    ELSE [ps EXCEPT ![p] = [status  |-> IF @.status = "pending"
                                        THEN "rejected" ELSE @.status,
                            settles |-> @.settles + 1]]

\* ensureCompactionPromise(): the state and the promises after it.
ensureCompactionPromise(st, ps) ==
    IF st.compactionRetryPromise = 0
    THEN LET p == CHOOSE q \in PromiseIds :
                      /\ ps[q].status = "free"
                      /\ \A r \in PromiseIds : ps[r].status = "free" => q <= r
         IN  [st |-> [st EXCEPT !.compactionRetryPromise = p,
                                !.compactionRetryResolve = p,
                                !.compactionRetryReject = p],
              ps |-> [ps EXCEPT ![p] = [status |-> "pending", settles |-> 0]]]
    ELSE [st |-> st, ps |-> ps]

\* Ghost: the state r.st of a step from the state old, with the note whether
\* the promise that left the slot in this step was not settled exactly once.
Retire(old, r) ==
    LET p == old.compactionRetryPromise
    IN  [r.st EXCEPT !.retiredUnsettled =
            @ \/ /\ p # 0
                 /\ r.st.compactionRetryPromise # p
                 /\ ~(/\ r.ps[p].status \in {"resolved", "rejected"}
                      /\ r.ps[p].settles = 1)]

\* The promises left once those nobody holds are collected.
Collect(ps, st, ws) ==
    [p \in PromiseIds |->
        IF \/ p \in {st.compactionRetryPromise, st.compactionRetryResolve,
                     st.compactionRetryReject}
           \/ \E i \in 1..Len(ws) : ws[i].promise = p
        THEN ps[p] ELSE FreePromise]

\* A noteCompactionRetry that counts the retry and creates no promise.
noteCompactionRetry_NoEnsure(st, ps) ==
    [st |-> [st EXCEPT !.pendingCompactionRetry = @ + 1], ps |-> ps]

noteCompactionRetry(st, ps) ==
    ensureCompactionPromise(
        [st EXCEPT !.pendingCompactionRetry = @ + 1], ps)

\* A resolveCompactionRetry that resolves the wait at its first call.
resolveCompactionRetry_FirstCallResolves(st, ps) ==
    IF st.pendingCompactionRetry <= 0 THEN [st |-> st, ps |-> ps]
    ELSE LET st1 == [st EXCEPT !.pendingCompactionRetry = @ - 1]
         IN  [st |-> [st1 EXCEPT !.compactionRetryResolve = 0,
                                 !.compactionRetryReject = 0,
                                 !.compactionRetryPromise = 0],
              ps |-> ResolvePromise(ps, st1.compactionRetryResolve)]

resolveCompactionRetry(st, ps) ==
    IF st.pendingCompactionRetry <= 0 THEN [st |-> st, ps |-> ps]
    ELSE LET st1 == [st EXCEPT !.pendingCompactionRetry = @ - 1]
         IN  IF st1.pendingCompactionRetry = 0 /\ ~st1.compactionInFlight
             THEN [st |-> [st1 EXCEPT !.compactionRetryResolve = 0,
                                      !.compactionRetryReject = 0,
                                      !.compactionRetryPromise = 0],
                   ps |-> ResolvePromise(ps, st1.compactionRetryResolve)]
             ELSE [st |-> st1, ps |-> ps]

\* A maybeResolveCompactionWait that clears the slot and settles nothing.
maybeResolveCompactionWait_ClearsOnly(st, ps) ==
    IF st.pendingCompactionRetry = 0 /\ ~st.compactionInFlight
    THEN [st |-> [st EXCEPT !.compactionRetryResolve = 0,
                            !.compactionRetryReject = 0,
                            !.compactionRetryPromise = 0],
          ps |-> ps]
    ELSE [st |-> st, ps |-> ps]

maybeResolveCompactionWait(st, ps) ==
    IF st.pendingCompactionRetry = 0 /\ ~st.compactionInFlight
    THEN [st |-> [st EXCEPT !.compactionRetryResolve = 0,
                            !.compactionRetryReject = 0,
                            !.compactionRetryPromise = 0],
          ps |-> ResolvePromise(ps, st.compactionRetryResolve)]
    ELSE [st |-> st, ps |-> ps]

\* The settlement of the promise a waitForCompactionRetry call returned.
WaiterStatus(w) ==
    IF w.promise # 0 THEN promises[w.promise].status ELSE w.own

\* The waiters whose promise is still pending.
PendingWaiters == { i \in 1..Len(waiters) : WaiterStatus(waiters[i]) = "pending" }

\* Ghost: every still pending waiter sees one more resolveCompactionRetry
\* call, which leaves it one call less to wait for.
CountResolve(ws) ==
    [i \in 1..Len(ws) |->
        IF i \in PendingWaiters /\ ws[i].owed > 0
        THEN [ws[i] EXCEPT !.owed = @ - 1]
        ELSE ws[i]]

\* Ghost: compaction work was added, or the subscription torn down, while
\* these waiters were pending.
Disturb(ws) ==
    [i \in 1..Len(ws) |->
        IF i \in PendingWaiters THEN [ws[i] EXCEPT !.scenario = "disturbed"]
        ELSE ws[i]]

\* ctx.noteCompactionRetry()
NoteCompactionRetry ==
    /\ comp.pendingCompactionRetry < MaxPending
    /\ waiters' = Disturb(waiters)
    /\ LET r == noteCompactionRetry(comp, promises)
       IN  comp' = Retire(comp, r) /\ promises' = Collect(r.ps, r.st, waiters')
    /\ UNCHANGED <<notComp>>

\* ctx.resolveCompactionRetry()
ResolveCompactionRetry ==
    /\ waiters' = CountResolve(waiters)
    /\ LET r == resolveCompactionRetry(comp, promises)
       IN  /\ comp' = [Retire(comp, r) EXCEPT !.settledAfterUnsubscribe =
                                      @ \/ (comp.unsubscribed
                                            /\ comp.pendingCompactionRetry > 0)]
           /\ promises' = Collect(r.ps, r.st, waiters')
    /\ UNCHANGED <<notComp>>

\* auto_compaction_start: a compaction is in flight and the wait exists.
CompactionStart ==
    /\ ~comp.compactionInFlight
    /\ waiters' = Disturb(waiters)
    /\ LET r == ensureCompactionPromise(
                    [comp EXCEPT !.compactionInFlight = TRUE], promises)
       IN  comp' = Retire(comp, r) /\ promises' = Collect(r.ps, r.st, waiters')
    /\ UNCHANGED <<notComp>>

\* auto_compaction_end: with willRetry the retry is noted, otherwise the wait
\* is resolved if nothing is left.
CompactionEnd(willRetry) ==
    /\ comp.compactionInFlight
    /\ willRetry => comp.pendingCompactionRetry < MaxPending
    /\ waiters' = IF willRetry THEN Disturb(waiters) ELSE waiters
    /\ LET st1 == [comp EXCEPT !.compactionInFlight = FALSE]
           r   == IF willRetry THEN noteCompactionRetry(st1, promises)
                  ELSE maybeResolveCompactionWait(st1, promises)
       IN  comp' = Retire(comp, r) /\ promises' = Collect(r.ps, r.st, waiters')
    /\ UNCHANGED <<notComp>>

\* The record of a waitForCompactionRetry call: the promise it returned (a
\* shared one, or its own when promise = 0), its microtask, and as ghosts the
\* scenario of the call ("late" after unsubscribe, "inflight" during a
\* compaction, "counted" with k retries pending, "idle" otherwise) and the
\* resolveCompactionRetry calls still owed of those k.
NewWaiter(promise, own, micro) ==
    LET counted == /\ ~comp.unsubscribed /\ ~comp.compactionInFlight
                   /\ comp.pendingCompactionRetry > 0
    IN  [promise |-> promise, own |-> own, micro |-> micro,
         scenario |-> IF comp.unsubscribed THEN "late"
                      ELSE IF comp.compactionInFlight THEN "inflight"
                      ELSE IF comp.pendingCompactionRetry > 0 THEN "counted"
                      ELSE "idle",
         k    |-> IF counted THEN comp.pendingCompactionRetry ELSE 0,
         owed |-> IF counted THEN comp.pendingCompactionRetry ELSE 0]

\* subscription.waitForCompactionRetry()
WaitForCompactionRetry ==
    /\ Len(waiters) < MaxWaiters
    /\ IF comp.unsubscribed
       THEN /\ waiters' = Append(waiters, NewWaiter(0, "rejected", "none"))
            /\ UNCHANGED <<comp, promises>>
       ELSE IF comp.compactionInFlight \/ comp.pendingCompactionRetry > 0
       THEN LET r == ensureCompactionPromise(comp, promises)
            IN  /\ comp' = r.st /\ promises' = r.ps
                /\ waiters' = Append(waiters,
                      NewWaiter(r.st.compactionRetryPromise, "pending", "none"))
       ELSE /\ waiters' = Append(waiters, NewWaiter(0, "pending", "queued"))
            /\ UNCHANGED <<comp, promises>>
    /\ UNCHANGED <<notComp>>

\* A microtask that does not look at state.unsubscribed.
RunMicrotask_NoUnsubscribedCheck(i) ==
    /\ i \in 1..Len(waiters)
    /\ waiters[i].micro = "queued"
    /\ IF comp.compactionInFlight \/ comp.pendingCompactionRetry > 0
       THEN LET r == ensureCompactionPromise(comp, promises)
            IN  /\ comp' = r.st /\ promises' = r.ps
                /\ waiters' = [waiters EXCEPT
                                 ![i].micro = "ran",
                                 ![i].promise = r.st.compactionRetryPromise]
       ELSE /\ waiters' = [waiters EXCEPT ![i].micro = "ran",
                                          ![i].own = "resolved"]
            /\ UNCHANGED <<comp, promises>>
    /\ UNCHANGED <<notComp>>

\* The microtask queued by waitForCompactionRetry call i runs.
RunMicrotask(i) ==
    /\ i \in 1..Len(waiters)
    /\ waiters[i].micro = "queued"
    /\ IF comp.unsubscribed
       THEN /\ waiters' = [waiters EXCEPT ![i].micro = "ran",
                                          ![i].own = "rejected"]
            /\ UNCHANGED <<comp, promises>>
       ELSE IF comp.compactionInFlight \/ comp.pendingCompactionRetry > 0
       THEN LET r == ensureCompactionPromise(comp, promises)
            IN  /\ comp' = r.st /\ promises' = r.ps
                /\ waiters' = [waiters EXCEPT
                                 ![i].micro = "ran",
                                 ![i].promise = r.st.compactionRetryPromise]
       ELSE /\ waiters' = [waiters EXCEPT ![i].micro = "ran",
                                          ![i].own = "resolved"]
            /\ UNCHANGED <<comp, promises>>
    /\ UNCHANGED <<notComp>>

\* An unsubscribe that resolves the compaction wait instead of rejecting it.
unsubscribe_ResolvesWait(st, ps) ==
    IF st.unsubscribed THEN [st |-> st, ps |-> ps]
    ELSE [st |-> [st EXCEPT
                    !.unsubscribed = TRUE,
                    !.compactionRetryResolve = 0,
                    !.compactionRetryReject = 0,
                    !.compactionRetryPromise = 0,
                    !.abortCompactionCalls =
                        IF st.compactionInFlight THEN @ + 1 ELSE @,
                    !.sessionUnsubscribeCalls = @ + 1],
          ps |-> ResolvePromise(ps, st.compactionRetryResolve)]

\* An unsubscribe without the guard on state.unsubscribed.
unsubscribe_NoGuard(st, ps) ==
    [st |-> [st EXCEPT
                !.unsubscribed = TRUE,
                !.compactionRetryResolve =
                    IF st.compactionRetryPromise # 0 THEN 0 ELSE @,
                !.compactionRetryReject =
                    IF st.compactionRetryPromise # 0 THEN 0 ELSE @,
                !.compactionRetryPromise = 0,
                !.abortCompactionCalls =
                    IF st.compactionInFlight THEN @ + 1 ELSE @,
                !.sessionUnsubscribeCalls = @ + 1],
     ps |-> IF st.compactionRetryPromise # 0
            THEN RejectPromise(ps, st.compactionRetryReject)
            ELSE ps]

\* unsubscribe(): the state and the promises after it (session.isCompacting
\* is taken to be compactionInFlight).
unsubscribe(st, ps) ==
    IF st.unsubscribed THEN [st |-> st, ps |-> ps]
    ELSE [st |-> [st EXCEPT
                    !.unsubscribed = TRUE,
                    !.compactionRetryResolve =
                        IF st.compactionRetryPromise # 0 THEN 0 ELSE @,
                    !.compactionRetryReject =
                        IF st.compactionRetryPromise # 0 THEN 0 ELSE @,
                    !.compactionRetryPromise = 0,
                    !.abortCompactionCalls =
                        IF st.compactionInFlight THEN @ + 1 ELSE @,
                    !.sessionUnsubscribeCalls = @ + 1],
          ps |-> IF st.compactionRetryPromise # 0
                 THEN RejectPromise(ps, st.compactionRetryReject)
                 ELSE ps]

\* subscription.unsubscribe()
Unsubscribe ==
    /\ waiters' = IF comp.unsubscribed THEN waiters ELSE Disturb(waiters)
    /\ LET r == unsubscribe(comp, promises)
       IN  /\ comp' = IF comp.unsubscribed
                      THEN [Retire(comp, r) EXCEPT !.unsubscribedAgain = TRUE]
                      ELSE [Retire(comp, r) EXCEPT
                               !.pendingAtUnsubscribe = PendingWaiters]
           /\ promises' = Collect(r.ps, r.st, waiters')
    /\ UNCHANGED <<notComp>>

CompNext ==
    \/ NoteCompactionRetry
    \/ ResolveCompactionRetry
    \/ CompactionStart
    \/ \E willRetry \in BOOLEAN : CompactionEnd(willRetry)
    \/ WaitForCompactionRetry
    \/ \E i \in 1..MaxWaiters : RunMicrotask(i)
    \/ Unsubscribe

-----------------------------------------------------------------------------
(***************************************************************************)
(* SpecRetry: a subscription with block chunks, messaging-tool sends and   *)
(* compactions, up to its first resetForCompactionRetry.                   *)
(***************************************************************************)

\* A reset that keeps the messaging-tool records.
resetForCompactionRetry_KeepsRecords(st) ==
    resetAssistantMessageState([st EXCEPT !.assistantTexts = <<>>], 0)

\* resetForCompactionRetry(), on the fields kept here (the block state is
\* reset by the action).
resetForCompactionRetry(st) ==
    resetAssistantMessageState(
        [st EXCEPT !.assistantTexts = <<>>,
                   !.messagingToolSentTexts = <<>>,
                   !.messagingToolSentTextsNormalized = <<>>,
                   !.messagingToolSentTargets = <<>>,
                   !.messagingToolSentMediaUrls = <<>>,
                   !.pendingMessagingTexts = <<>>,
                   !.pendingMessagingTargets = <<>>,
                   !.pendingMessagingMediaUrls = <<>>],
        0)

\* resetForCompactionRetry() is called.
ResetForCompactionRetry ==
    /\ ~sub.reset.done
    /\ sub' = [resetForCompactionRetry(sub) EXCEPT
                 !.lastEmit = NoEmit,
                 !.written = NoWrite,
                 !.reset = [done |-> TRUE, sub |-> sub,
                            blockState |-> blockState, comp |-> comp,
                            promises |-> promises]]
    /\ blockState' = InitialBlockState
    /\ UNCHANGED <<subParams, blockReplies, toolLog, lastEnd,
                   scanInput, rest, nFed, lastChunk, lastCall, out,
                   rotVars, compVars, idleVars, nc, extVars>>

\* The texts of the block chunks: one plain, and one that opens a final span
\* and a thinking span in it.
RetryTexts ==
    { <<"H","i">>,
      <<"<","f","i","n","a","l",">","a","<","t","h","i","n","k",">","b">> }

RetryNext ==
    \/ ~sub.reset.done /\ SendStart(1)
    \/ ~sub.reset.done /\ SendEnd
    \/ ~sub.reset.done /\ MessageStart
    \/ ~sub.reset.done /\ MessageEndStreamed(<<"O","K">>)
    \/ ~sub.reset.done /\ \E text \in RetryTexts : EmitBlockChunk(text)
    \/ ~sub.reset.done /\ CompactionStart
    \/ ~sub.reset.done /\ CompactionEnd(TRUE)
    \/ ResetForCompactionRetry

-----------------------------------------------------------------------------
(***************************************************************************)
(* SpecIdle: the idle reminder of one session.  An IdleReminderState       *)
(* object is a number, reminderStates[o] its fields; activeReminders is    *)
(* the object the map holds for the session (0: no entry).  A timer is a   *)
(* handle; a handle that fired or was cleared is forgotten by the objects  *)
(* that held it (clearTimeout of such a handle does nothing), which lets   *)
(* handles be used again.  The transcript is a list of entries, its size   *)
(* their number.  The rolling buffer of reply texts only feeds the prompt  *)
(* and is left out.                                                        *)
(***************************************************************************)

\* Bounds: the startIdleReminder calls and the transcript entries.
MaxStarts == 3
MaxTranscript == 2

MAX_REMIND_COUNT == 1

TimerIds == 1..MaxStarts

\* What the ticks did since the reminder was last reset: the heartbeats that
\* prompted the model, and how the last tick's check ended.
NoIdleLog == [sent |-> 0, last |-> "none"]

\* setTimeout(): the lowest handle that is not armed.
NewTimer(armed) == CHOOSE h \in TimerIds \ armed : \A g \in TimerIds \ armed : h <= g

\* The objects once the handles hs fired or were cleared.
Forget(states, hs) ==
    [o \in 1..Len(states) |->
        IF states[o].timer \in hs THEN [states[o] EXCEPT !.timer = 0]
        ELSE states[o]]

RemoveAt(seq, i) == SubSeq(seq, 1, i - 1) \o SubSeq(seq, i + 1, Len(seq))

\* resolveTranscriptSize(): the size of the transcript, 0 when reading fails.
resolveTranscriptSize(ioFails) == IF ioFails THEN 0 ELSE Len(transcript)

\* hasNewNonHeartbeatContent(): every failure is caught inside.
hasNewNonHeartbeatContent(lastSize, ioFails) ==
    IF ioFails THEN [hasNew |-> FALSE, currentSize |-> lastSize]
    ELSE IF Len(transcript) <= lastSize
    THEN [hasNew |-> FALSE, currentSize |-> Len(transcript)]
    ELSE [hasNew |-> \E k \in (lastSize + 1)..Len(transcript) :
                         transcript[k] = "content",
          currentSize |-> Len(transcript)]

\* startIdleReminder(): the existing timer is cleared, a new state object
\* with a new timer replaces the entry.
StartIdleReminder(ioFails) ==
    /\ Len(reminderStates) < MaxStarts
    /\ LET old     == IF activeReminders = 0 THEN 0
                      ELSE reminderStates[activeReminders].timer
           cleared == IF old = 0 THEN {} ELSE {old}
           h       == NewTimer(timers \ cleared)
       IN  /\ timers' = (timers \ cleared) \cup {h}
           /\ reminderStates' =
                  Append(Forget(reminderStates, cleared),
                         [timer |-> h, count |-> 0,
                          lastTranscriptSize |-> resolveTranscriptSize(ioFails)])
           /\ activeReminders' = Len(reminderStates) + 1
    /\ idleLog' = NoIdleLog
    /\ UNCHANGED <<checks, transcript, notIdle>>

\* stopIdleReminder()
StopIdleReminder ==
    /\ activeReminders # 0
    /\ LET old     == reminderStates[activeReminders].timer
           cleared == IF old = 0 THEN {} ELSE {old}
       IN  /\ timers' = timers \ cleared
           /\ reminderStates' = Forget(reminderStates, cleared)
    /\ activeReminders' = 0
    /\ UNCHANGED <<checks, transcript, idleLog, notIdle>>

\* An agent run or a heartbeat appends an entry to the transcript.
TranscriptGrows(entry) ==
    /\ Len(transcript) < MaxTranscript
    /\ transcript' = Append(transcript, entry)
    /\ UNCHANGED <<activeReminders, reminderStates, timers, checks, idleLog,
                   notIdle>>

\* The state object o arms a new timer (state.timer = setTimeout(...)).
Rearm(states, armed, o) ==
    LET h == NewTimer(armed)
    IN  [states |-> [states EXCEPT ![o].timer = h], armed |-> armed \cup {h}]

\* checkAndMaybeRemind after sendSimulatedHeartbeat (lines 295-305): the
\* count goes up, then the timer is armed again or the entry deleted.
\* active is the map's entry when these lines run.
FinishCheck(states, armed, active, o, ioFails) ==
    LET counted == [states EXCEPT
                       ![o].count = @ + 1,
                       ![o].lastTranscriptSize = resolveTranscriptSize(ioFails)]
    IN  IF counted[o].count < MAX_REMIND_COUNT
        THEN LET r == Rearm(counted, armed, o)
             IN  [states |-> r.states, armed |-> r.armed, active |-> active]
        ELSE [states |-> counted, armed |-> armed, active |-> 0]

\* checkAndMaybeRemind up to its await (lines 239-289), for the registered
\* object, with the timers armed after the firing and the objects after it.
\* queue is what getQueueSize does, send how far sendSimulatedHeartbeat gets
\* before it returns or awaits the model's reply.
TickBody(fired, states, queue, ioFails, send) ==
    LET o   == activeReminders
        new == hasNewNonHeartbeatContent(states[o].lastTranscriptSize, ioFails)
    IN  IF queue = "throws"
        THEN [states |-> states, armed |-> fired, active |-> o,
              awaits |-> FALSE, last |-> "threw", reset |-> FALSE]
        ELSE IF queue = "busy"
        THEN LET r == Rearm(states, fired, o)
             IN  [states |-> r.states, armed |-> r.armed, active |-> o,
                  awaits |-> FALSE, last |-> "busy", reset |-> FALSE]
        ELSE IF new.hasNew
        THEN LET r == Rearm([states EXCEPT
                                ![o].lastTranscriptSize = new.currentSize,
                                ![o].count = 0], fired, o)
             IN  [states |-> r.states, armed |-> r.armed, active |-> o,
                  awaits |-> FALSE, last |-> "activity", reset |-> TRUE]
        ELSE IF states[o].count >= MAX_REMIND_COUNT
        THEN [states |-> states, armed |-> fired, active |-> 0,
              awaits |-> FALSE, last |-> "max", reset |-> FALSE]
        ELSE IF send = "awaits"
        THEN [states |-> states, armed |-> fired, active |-> o,
              awaits |-> TRUE, last |-> "sending", reset |-> FALSE]
        ELSE LET f == FinishCheck(states, fired, o, o, ioFails)
             IN  [states |-> f.states, armed |-> f.armed, active |-> f.active,
                  awaits |-> FALSE, last |-> send, reset |-> FALSE]

\* The timer h fires: checkAndMaybeRemind(sessionKey) runs up to its first
\* await or to its end.
Tick(h, queue, ioFails, send) ==
    /\ h \in timers
    /\ LET fired  == timers \ {h}
           states == Forget(reminderStates, {h})
       IN  IF activeReminders = 0
           THEN /\ timers' = fired /\ reminderStates' = states
                /\ UNCHANGED <<activeReminders, checks, idleLog>>
           ELSE LET r == TickBody(fired, states, queue, ioFails, send)
                IN  /\ timers' = r.armed
                    /\ reminderStates' = r.states
                    /\ activeReminders' = r.active
                    /\ checks' = IF r.awaits
                                 THEN Append(checks, [state |-> activeReminders,
                                                      pc |-> "reply"])
                                 ELSE checks
                    /\ idleLog' = [sent |-> IF r.reset THEN 0
                                            ELSE IF r.awaits THEN idleLog.sent + 1
                                            ELSE idleLog.sent,
                                   last |-> r.last]
    /\ UNCHANGED <<transcript, notIdle>>

\* getReplyFromConfig settles for the waiting check i.  An empty reply and a
\* HEARTBEAT_OK reply ("agentIdle") delete the entry inside
\* sendSimulatedHeartbeat; a reply to deliver leaves the check waiting for
\* the delivery; every other outcome lets checkAndMaybeRemind go on.
ReplySettles(i, reply, ioFails) ==
    /\ i \in 1..Len(checks)
    /\ checks[i].pc = "reply"
    /\ IF reply = "deliver"
       THEN /\ checks' = [checks EXCEPT ![i].pc = "deliver"]
            /\ UNCHANGED <<activeReminders, reminderStates, timers, idleLog>>
       ELSE LET f == FinishCheck(reminderStates, timers,
                                 IF reply = "agentIdle" THEN 0
                                 ELSE activeReminders,
                                 checks[i].state, ioFails)
            IN  /\ checks' = RemoveAt(checks, i)
                /\ reminderStates' = f.states
                /\ timers' = f.armed
                /\ activeReminders' = f.active
                /\ idleLog' = [idleLog EXCEPT !.last = reply]
    /\ UNCHANGED <<transcript, notIdle>>

\* deliverOutboundPayloads and the saving of the session store settle for
\* the waiting check i, which goes on after the try block.
DeliverySettles(i, delivery, ioFails) ==
    /\ i \in 1..Len(checks)
    /\ checks[i].pc = "deliver"
    /\ LET f == FinishCheck(reminderStates, timers, activeReminders,
                            checks[i].state, ioFails)
       IN  /\ checks' = RemoveAt(checks, i)
           /\ reminderStates' = f.states
           /\ timers' = f.armed
           /\ activeReminders' = f.active
           /\ idleLog' = [idleLog EXCEPT !.last = delivery]
    /\ UNCHANGED <<transcript, notIdle>>

IdleNext ==
    \/ \E ioFails \in BOOLEAN : StartIdleReminder(ioFails)
    \/ StopIdleReminder
    \/ \E entry \in {"heartbeat", "content"} : TranscriptGrows(entry)
    \/ \E h \in TimerIds, queue \in {"idle", "busy", "throws"},
          ioFails \in BOOLEAN,
          send \in {"awaits", "sendThrows", "noEntry", "noTarget"} :
          Tick(h, queue, ioFails, send)
    \/ \E i \in 1..MaxStarts, ioFails \in BOOLEAN,
          reply \in {"replyThrows", "agentIdle", "strippedEmpty", "deliver"} :
          ReplySettles(i, reply, ioFails)
    \/ \E i \in 1..MaxStarts, ioFails \in BOOLEAN,
          delivery \in {"deliveryThrows", "delivered"} :
          DeliverySettles(i, delivery, ioFails)

-----------------------------------------------------------------------------
(***************************************************************************)
(* SpecNc: the non-conforming output handler and the run loop's retries.   *)
(***************************************************************************)

\* Bound: the retryCount values the handler is called with.
MaxRetryCount == 4

MIN_TEXT_LENGTH == 20
MAX_RETRIES == 3

NON_CONFORMING_FOLLOWUP_PROMPT == "NON_CONFORMING_FOLLOWUP_PROMPT"

SILENT_REPLY_TOKEN == <<"N", "O", "_", "R", "E", "P", "L", "Y">>

\* A text of n letters.
Xs(n) == [i \in 1..n |-> "x"]

\* The raw texts of a last assistant message: around the length threshold,
\* with and without surrounding white space, and with the silent-reply
\* token alone, first, last, and glued to a word.
NcTexts ==
    { <<>>, Xs(MIN_TEXT_LENGTH), Xs(MIN_TEXT_LENGTH + 1),
      <<" ">> \o Xs(MIN_TEXT_LENGTH) \o <<"\n">>,
      <<" ">> \o Xs(MIN_TEXT_LENGTH + 1) \o <<" ">>,
      Xs(MIN_TEXT_LENGTH - 1) \o <<" ", "x">>,
      SILENT_REPLY_TOKEN,
      SILENT_REPLY_TOKEN \o <<" ">> \o Xs(MIN_TEXT_LENGTH),
      Xs(MIN_TEXT_LENGTH) \o <<" ">> \o SILENT_REPLY_TOKEN \o <<".">>,
      Xs(MIN_TEXT_LENGTH) \o SILENT_REPLY_TOKEN }

\* The last assistant message: undefined, or its stop reason and its text.
NoAssistant == [stopReason |-> "undefined", text |-> <<>>]

NcLastAssistants ==
    {NoAssistant} \cup [stopReason : {"stop", "toolUse"}, text : NcTexts]

\* What an attempt hands to checkNonConformingOutput, retryCount aside.
NcAttempts ==
    [enforceFinalTag : BOOLEAN, aborted : BOOLEAN, timedOut : BOOLEAN,
     assistantTexts : {<<>>, <<Xs(1)>>}, didSendViaMessagingTool : BOOLEAN,
     lastAssistant : NcLastAssistants]

\* extractAssistantText(msg): the text of the message.
extractAssistantText(msg) == msg.text

\* String.prototype.trim()
trim(t) == trimEnd(trimStart(t))

\* Whether the token stands at offset i of the text.
TokenAt(t, i) ==
    /\ i >= 0
    /\ i + Len(SILENT_REPLY_TOKEN) <= Len(t)
    /\ \A k \in 1..Len(SILENT_REPLY_TOKEN) : t[i + k] = SILENT_REPLY_TOKEN[k]

\* The length of the text without the non-word characters it ends with.
RECURSIVE WordEnd(_)
WordEnd(t) ==
    IF t # <<>> /\ ~IsWordChar(t[Len(t)]) THEN WordEnd(SubSeq(t, 1, Len(t) - 1))
    ELSE Len(t)

\* isSilentReplyText(text): the token, after white space, at the start and
\* followed by no word character; or the token as a whole word at the end,
\* followed by non-word characters only.
isSilentReplyText(text) ==
    \/ LET i == SkipSpace(text, 0)
       IN  TokenAt(text, i)
           /\ ~IsWordChar(CharAt(text, i + Len(SILENT_REPLY_TOKEN)))
    \/ LET e == WordEnd(text)
           i == e - Len(SILENT_REPLY_TOKEN)
       IN  TokenAt(text, i) /\ ~IsWordChar(CharAt(text, i - 1))

NoAction == [action |-> "null"]

\* A checkNonConformingOutput that still retries at retryCount = MAX_RETRIES.
checkNonConformingOutput_RetryAtMax(a, retryCount) ==
    IF \/ ~a.enforceFinalTag
       \/ a.aborted
       \/ a.timedOut
       \/ Len(a.assistantTexts) > 0
       \/ a.didSendViaMessagingTool
       \/ a.lastAssistant.stopReason # "stop"
    THEN NoAction
    ELSE LET rawText == trim(extractAssistantText(a.lastAssistant))
         IN  IF Len(rawText) <= MIN_TEXT_LENGTH \/ isSilentReplyText(rawText)
             THEN NoAction
             ELSE IF retryCount <= MAX_RETRIES
             THEN [action |-> "retry", prompt |-> NON_CONFORMING_FOLLOWUP_PROMPT]
             ELSE [action |-> "fallback", text |-> rawText]

\* A checkNonConformingOutput that acts on a text of MIN_TEXT_LENGTH
\* characters.
checkNonConformingOutput_ShortTextActs(a, retryCount) ==
    IF \/ ~a.enforceFinalTag
       \/ a.aborted
       \/ a.timedOut
       \/ Len(a.assistantTexts) > 0
       \/ a.didSendViaMessagingTool
       \/ a.lastAssistant.stopReason # "stop"
    THEN NoAction
    ELSE LET rawText == trim(extractAssistantText(a.lastAssistant))
         IN  IF Len(rawText) < MIN_TEXT_LENGTH \/ isSilentReplyText(rawText)
             THEN NoAction
             ELSE IF retryCount < MAX_RETRIES
             THEN [action |-> "retry", prompt |-> NON_CONFORMING_FOLLOWUP_PROMPT]
             ELSE [action |-> "fallback", text |-> rawText]

\* checkNonConformingOutput(params), of the attempt a with retryCount.
checkNonConformingOutput(a, retryCount) ==
    IF \/ ~a.enforceFinalTag
       \/ a.aborted
       \/ a.timedOut
       \/ Len(a.assistantTexts) > 0
       \/ a.didSendViaMessagingTool
       \/ a.lastAssistant.stopReason # "stop"
    THEN NoAction
    ELSE LET rawText == trim(extractAssistantText(a.lastAssistant))
         IN  IF Len(rawText) <= MIN_TEXT_LENGTH \/ isSilentReplyText(rawText)
             THEN NoAction
             ELSE IF retryCount < MAX_RETRIES
             THEN [action |-> "retry", prompt |-> NON_CONFORMING_FOLLOWUP_PROMPT]
             ELSE [action |-> "fallback", text |-> rawText]

\* The run loop before its first check: an attempt has ended.
NcStart(a, retryCount) ==
    [attempt |-> a, retryCount |-> retryCount, startCount |-> retryCount,
     result |-> NoAction, reprompts |-> 0, pc |-> "attempt"]

\* The run loop calls checkNonConformingOutput on the attempt that ended.
CheckAttempt ==
    /\ nc.pc = "attempt"
    /\ nc' = [nc EXCEPT
                 !.result = checkNonConformingOutput(nc.attempt, nc.retryCount),
                 !.pc = "checked"]
    /\ UNCHANGED notNc

\* On a retry action the run loop adds one to retryCount and prompts the
\* model again; the next attempt ends with a.
RunLoopRetry(a) ==
    /\ nc.pc = "checked"
    /\ nc.result.action = "retry"
    /\ nc.retryCount < MaxRetryCount
    /\ nc' = [nc EXCEPT !.attempt = a,
                        !.retryCount = @ + 1,
                        !.reprompts = @ + 1,
                        !.pc = "attempt"]
    /\ UNCHANGED notNc

NcNext ==
    \/ CheckAttempt
    \/ \E a \in NcAttempts : RunLoopRetry(a)

-----------------------------------------------------------------------------
(***************************************************************************)
(* SpecBuf: the buffering stream wrapper (wrapStreamFnWithBuffer).  One    *)
(* call runs at a time; the real stream is followed event by event.        *)
(***************************************************************************)

\* Bound: the number of calls of the wrapped function, one after the other.
MaxBufCalls == 2

\* The wrapper between two calls.  real, realThrows: what the real stream
\* has still to do; realStream: what it has done; events: the events
\* collected; returned: the stream object the wrapped function returned.
NoBuf ==
    [pc |-> "idle", callNo |-> 0, model |-> NoModel, returned |-> "none",
     behaviour |-> <<>>, real |-> <<>>, realThrows |-> "",
     realStream |-> [events |-> <<>>, ended |-> FALSE, threw |-> ""],
     events |-> <<>>,
     bufferedStream |-> [events |-> <<>>, ended |-> FALSE]]

\* A catch block that replays what was collected before the error event.
BufferedOnThrow_KeepsCollected(events, class) ==
    Append(events, SyntheticError(class))

\* catch (error): what is pushed to the buffered stream before it is ended.
BufferedOnThrow(events, class) == <<SyntheticError(class)>>

\* The wrapped function is called with a model of a Google api: a new stream
\* is returned, and the async body calls streamFn; b is what the real
\* stream does.
BufCallGoogle(model, b) ==
    /\ buf.pc = "idle"
    /\ buf.callNo < MaxBufCalls
    /\ isGoogleModelApi(model.api)
    /\ buf' = [NoBuf EXCEPT !.pc = "consume", !.callNo = buf.callNo + 1,
                            !.model = model, !.returned = "bufferedStream",
                            !.behaviour = EventsOf(b, 0),
                            !.real = EventsOf(b, 0), !.realThrows = b.throws]
    /\ UNCHANGED <<gns, promo, cache, notExt>>

\* The wrapped function is called with a model of any other api:
\* return streamFn(model, context, options).
BufPassThrough(model, b) ==
    /\ buf.pc = "idle"
    /\ buf.callNo < MaxBufCalls
    /\ ~isGoogleModelApi(model.api)
    /\ buf' = [NoBuf EXCEPT !.pc = "passed", !.callNo = buf.callNo + 1,
                            !.model = model, !.returned = "realStream",
                            !.behaviour = EventsOf(b, 0),
                            !.real = EventsOf(b, 0), !.realThrows = b.throws]
    /\ UNCHANGED <<gns, promo, cache, notExt>>

\* The real stream yields its next event; the async body, when it is the
\* reader, collects it: events.push(event).
RealYields ==
    /\ buf.pc \in {"consume", "passed"}
    /\ buf.real # <<>>
    /\ buf' = [buf EXCEPT
                 !.real = Tail(@),
                 !.realStream.events = Append(@, Head(buf.real)),
                 !.events = IF buf.pc = "consume"
                            THEN Append(@, Head(buf.real)) ELSE @]
    /\ UNCHANGED <<gns, promo, cache, notExt>>

\* The real stream ends; the async body replays the collected events and
\* ends the buffered stream.
RealEnds ==
    /\ buf.pc \in {"consume", "passed"}
    /\ buf.real = <<>> /\ buf.realThrows = ""
    /\ buf' = [buf EXCEPT
                 !.pc = "done",
                 !.realStream.ended = TRUE,
                 !.bufferedStream =
                     IF buf.pc = "consume"
                     THEN End(PushAll(@, buf.events)) ELSE @]
    /\ UNCHANGED <<gns, promo, cache, notExt>>

\* streamFn throws or reading the real stream does; the async body's catch
\* block pushes one error event and ends the buffered stream.
RealThrows ==
    /\ buf.pc \in {"consume", "passed"}
    /\ buf.real = <<>> /\ buf.realThrows # ""
    /\ buf' = [buf EXCEPT
                 !.pc = "done",
                 !.realStream.threw = buf.realThrows,
                 !.bufferedStream =
                     IF buf.pc = "consume"
                     THEN End(PushAll(@, BufferedOnThrow(buf.events,
                                                         buf.realThrows)))
                     ELSE @]
    /\ UNCHANGED <<gns, promo, cache, notExt>>

\* The caller has read the returned stream; the next call may come.
BufCallReturns ==
    /\ buf.pc = "done"
    /\ buf' = [buf EXCEPT !.pc = "idle"]
    /\ UNCHANGED <<gns, promo, cache, notExt>>

BufNext ==
    \/ \E model \in Models, b \in Behaviours : BufCallGoogle(model, b)
    \/ \E model \in Models, b \in Behaviours : BufPassThrough(model, b)
    \/ RealYields
    \/ RealEnds
    \/ RealThrows
    \/ BufCallReturns

-----------------------------------------------------------------------------
(***************************************************************************)
(* SpecGns: the non-streaming Google wrapper (wrapGoogleNonStreaming).     *)
(* One call runs at a time: the async body up to its await of              *)
(* generateContent, then the rest of it in one step.                       *)
(***************************************************************************)

\* Bound: the parts of a response's first candidate.
MaxParts == 2

\* A part of the response: with a text that is plain or a thought, with a
\* function call, with both, or with neither.
PartKinds == {"text", "thinking", "functionCall", "textAndCall", "other"}

RECURSIVE PartSeqs(_)
PartSeqs(n) ==
    IF n = 0 THEN { <<>> }
    ELSE PartSeqs(n - 1) \cup
         { Append(ps, k) : ps \in { q \in PartSeqs(n - 1) : Len(q) = n - 1 },
                           k \in PartKinds }

\* mapStopReason(candidate.finishReason), "none" for no finishReason.
FinishReasons == {"none", "stop", "length", "error", "aborted"}

\* The responses of generateContent: a first candidate with parts and a
\* finish reason (hasParts false: no candidate, or one with no content).
Responses ==
    [hasParts : {TRUE}, parts : PartSeqs(MaxParts), finish : FinishReasons]
        \cup [hasParts : {FALSE}, parts : { <<>> }, finish : FinishReasons]

NoResponse == [hasParts |-> FALSE, parts |-> <<>>, finish |-> "none"]

NoGns ==
    [pc |-> "idle", model |-> NoModel, aborted |-> FALSE,
     response |-> NoResponse, rejected |-> FALSE, stopReason |-> "stop",
     stream |-> [events |-> <<>>, ended |-> FALSE]]

isNonStreamableGoogleApi(api) == api = "google-generative-ai"

\* The events pushed for one part: text or thinking, then the tool call.
PartEvents(kind) ==
    (CASE kind = "thinking" ->
              <<"thinking_start", "thinking_delta", "thinking_end">>
       [] kind \in {"text", "textAndCall"} ->
              <<"text_start", "text_delta", "text_end">>
       [] OTHER -> <<>>)
    \o (IF kind \in {"functionCall", "textAndCall"}
        THEN <<"toolcall_start", "toolcall_delta", "toolcall_end">>
        ELSE <<>>)

RECURSIVE ContentEvents(_)
ContentEvents(parts) ==
    IF parts = <<>> THEN <<>>
    ELSE PartEvents(Head(parts)) \o ContentEvents(Tail(parts))

\* output.stopReason after the response has been converted.
StopReasonOf(response) ==
    IF response.finish = "none" THEN "stop"
    ELSE IF \E i \in 1..Len(response.parts) :
                response.parts[i] \in {"functionCall", "textAndCall"}
         THEN "toolUse"
         ELSE response.finish

\* The wrapped function is called for a google-generative-ai model: the
\* stream is returned and the async body runs up to
\* await client.models.generateContent(params).
GnsCall(model, aborted) ==
    /\ gns.pc = "idle"
    /\ isNonStreamableGoogleApi(model.api)
    /\ gns' = [NoGns EXCEPT !.pc = "await", !.model = model,
                            !.aborted = aborted]
    /\ UNCHANGED <<buf, promo, cache, notExt>>

\* The wrapped function is called for any other model:
\* return streamFn(model, context, options).
GnsPassThrough(model) ==
    /\ gns.pc = "idle"
    /\ ~isNonStreamableGoogleApi(model.api)
    /\ gns' = [NoGns EXCEPT !.pc = "passed", !.model = model]
    /\ UNCHANGED <<buf, promo, cache, notExt>>

\* The caller aborts the request's signal while the request is out.
SignalAborts ==
    /\ gns.pc = "await"
    /\ ~gns.aborted
    /\ gns' = [gns EXCEPT !.aborted = TRUE]
    /\ UNCHANGED <<buf, promo, cache, notExt>>

\* generateContent resolves: start and the content events are pushed, the
\* stop reason is set, and then either the abort and stop-reason checks
\* throw into the catch block or done is pushed; the stream is ended.
ResponseArrives(response) ==
    /\ gns.pc = "await"
    /\ LET stopReason == StopReasonOf(response)
           pushed == <<"start">> \o
                     (IF response.hasParts
                      THEN ContentEvents(response.parts) ELSE <<>>)
           throws == gns.aborted \/ stopReason \in {"aborted", "error"}
       IN  gns' = [gns EXCEPT
                     !.pc = "done",
                     !.response = response,
                     !.stopReason =
                         IF throws
                         THEN (IF gns.aborted THEN "aborted" ELSE "error")
                         ELSE stopReason,
                     !.stream =
                         [events |-> Append(pushed,
                                       IF throws THEN "error" ELSE "done"),
                          ended |-> TRUE]]
    /\ UNCHANGED <<buf, promo, cache, notExt>>

\* generateContent rejects (or building the request threw): the catch block
\* pushes the error event and ends the stream.
ResponseRejects ==
    /\ gns.pc = "await"
    /\ gns' = [gns EXCEPT
                 !.pc = "done",
                 !.rejected = TRUE,
                 !.stopReason = IF gns.aborted THEN "aborted" ELSE "error",
                 !.stream = [events |-> <<"error">>, ended |-> TRUE]]
    /\ UNCHANGED <<buf, promo, cache, notExt>>

\* The caller has read the stream; the next call may come.
GnsCallReturns ==
    /\ gns.pc \in {"done", "passed"}
    /\ gns' = [gns EXCEPT !.pc = "idle"]
    /\ UNCHANGED <<buf, promo, cache, notExt>>

GnsNext ==
    \/ \E model \in Models, aborted \in BOOLEAN : GnsCall(model, aborted)
    \/ \E model \in Models : GnsPassThrough(model)
    \/ SignalAborts
    \/ \E response \in Responses : ResponseArrives(response)
    \/ ResponseRejects
    \/ GnsCallReturns

-----------------------------------------------------------------------------
(***************************************************************************)
(* SpecPromo: promoteCallTagsToBlocks on one assistant message.            *)
(***************************************************************************)

\* Bound: the segments an input text block is put together from.
MaxSegs == 3

CALL_OPEN  == <<"<", "c", "a", "l", "l", ">">>
CALL_CLOSE == <<"<", "/", "c", "a", "l", "l", ">">>

\* The segments of the input texts: plain text, a space, the two tags alone,
\* a call that parses, and calls that do not (no tool name, no brace, the
\* braces the wrong way round).
PromoSegments ==
    { <<"t">>, <<" ">>, CALL_OPEN, CALL_CLOSE,
      CALL_OPEN \o <<"t", "{", "}">> \o CALL_CLOSE,
      CALL_OPEN \o <<"{", "}">> \o CALL_CLOSE,
      CALL_OPEN \o <<"t">> \o CALL_CLOSE,
      CALL_OPEN \o <<"t", "}", "{">> \o CALL_CLOSE }

RECURSIVE SegSeqs(_)
SegSeqs(n) ==
    IF n = 0 THEN { <<>> }
    ELSE SegSeqs(n - 1) \cup
         { Append(ps, g) : ps \in { q \in SegSeqs(n - 1) : Len(q) = n - 1 },
                           g \in PromoSegments }

PromoTexts == { Flatten(ps) : ps \in SegSeqs(MaxSegs) }

TextBlock(text) == [type |-> "text", text |-> text, name |-> <<>>]
ThinkingBlock == [type |-> "thinking", text |-> <<"t">>, name |-> <<>>]
ToolCallBlock(name) == [type |-> "toolCall", text |-> <<>>, name |-> name]

\* The assistant messages given: one text block, alone or after a thinking
\* block, with the stop reason the model set.
PromoMessages ==
    { [content |-> pre \o <<TextBlock(text)>>, stopReason |-> stopReason] :
          pre \in { <<>>, <<ThinkingBlock>> }, text \in PromoTexts,
          stopReason \in {"stop", "length"} }

NoPromo ==
    [done |-> FALSE, message |-> [content |-> <<>>, stopReason |-> "stop"],
     result |-> [content |-> <<>>, stopReason |-> "stop"]]

\* The word w stands at offset i of the text.
StartsAt(text, i, w) ==
    /\ i >= 0 /\ i + Len(w) <= Len(text)
    /\ SubSeq(text, i + 1, i + Len(w)) = w

\* String.prototype.indexOf(w, from): -1 when there is none.
IndexOf(text, w, from) ==
    LET at == { i \in from..(Len(text) - Len(w)) : StartsAt(text, i, w) }
    IN  IF at = {} THEN -1 ELSE CHOOSE i \in at : \A j \in at : i <= j

\* String.prototype.lastIndexOf(w)
LastIndexOf(text, w) ==
    LET at == { i \in 0..(Len(text) - Len(w)) : StartsAt(text, i, w) }
    IN  IF at = {} THEN -1 ELSE CHOOSE i \in at : \A j \in at : i >= j

NoParse == [ok |-> FALSE, toolName |-> <<>>, end |-> 0]

\* parseOneCallTag(text, openStart); the arguments are left out.
parseOneCallTag(text, openStart) ==
    LET bodyStart == openStart + Len(CALL_OPEN)
        closeIdx  == IndexOf(text, CALL_CLOSE, bodyStart)
    IN  IF closeIdx < 0 THEN NoParse
        ELSE LET body      == trim(Slice(text, bodyStart, closeIdx))
                 braceIdx  == IndexOf(body, <<"{">>, 0)
                 toolName  == trim(Slice(body, 0, braceIdx))
                 lastBrace == LastIndexOf(body, <<"}">>)
             IN  IF braceIdx < 0 THEN NoParse
                 ELSE IF toolName = <<>> THEN NoParse
                 ELSE IF lastBrace <= braceIdx THEN NoParse
                 ELSE [ok |-> TRUE, toolName |-> toolName,
                       end |-> closeIdx + Len(CALL_CLOSE)]

\* while (cursor < src.length && /\s/.test(src[cursor])) cursor++
RECURSIVE SkipSpaces(_, _)
SkipSpaces(src, cursor) ==
    IF cursor < Len(src) /\ IsSpace(src[cursor + 1])
    THEN SkipSpaces(src, cursor + 1) ELSE cursor

\* next.push({ type: "text", text }) when the trimmed text is not empty.
PushText(next, text) ==
    IF trim(text) # <<>> THEN Append(next, TextBlock(trim(text))) ELSE next

\* The while loop over one text block that holds a call tag.
RECURSIVE ScanCallTags(_, _, _)
ScanCallTags(src, cursor, next) ==
    IF cursor >= Len(src) THEN next
    ELSE LET idx == IndexOf(src, CALL_OPEN, cursor)
         IN  IF idx < 0 THEN PushText(next, SliceFrom(src, cursor))
             ELSE LET kept   == PushText(next, Slice(src, cursor, idx))
                      parsed == parseOneCallTag(src, idx)
                  IN  IF parsed.ok
                      THEN ScanCallTags(src, SkipSpaces(src, parsed.end),
                               Append(kept, ToolCallBlock(parsed.toolName)))
                      ELSE ScanCallTags(src, idx + Len(CALL_OPEN), kept)

HoldsCallTag(block) ==
    block.type = "text" /\ IndexOf(block.text, CALL_OPEN, 0) >= 0

\* The for loop over message.content.
RECURSIVE PromoteBlocks(_, _)
PromoteBlocks(content, next) ==
    IF content = <<>> THEN next
    ELSE PromoteBlocks(Tail(content),
             IF HoldsCallTag(Head(content))
             THEN ScanCallTags(Head(content).text, 0, next)
             ELSE Append(next, Head(content)))

\* promoteCallTagsToBlocks(message): the message after the call.
promoteCallTagsToBlocks(message) ==
    IF ~\E b \in 1..Len(message.content) : HoldsCallTag(message.content[b])
    THEN message
    ELSE [content |-> PromoteBlocks(message.content, <<>>),
          stopReason |-> "tool_call"]

\* One call of promoteCallTagsToBlocks.
Promote ==
    /\ ~promo.done
    /\ promo' = [promo EXCEPT !.done = TRUE,
                              !.result = promoteCallTagsToBlocks(promo.message)]
    /\ UNCHANGED <<buf, gns, cache, notExt>>

PromoNext == Promote

-----------------------------------------------------------------------------
(***************************************************************************)
(* SpecCache: one agent's media cache under concurrent saveToAgentCache    *)
(* calls.  A call runs from one await to the next in one step.  Sizes are  *)
(* in MiB.  The index is the object held in cacheIndexMap.                 *)
(***************************************************************************)

\* Bound: the saveToAgentCache calls, which may all be in progress at once.
MaxSavers == 2

Savers == 1..MaxSavers

\* 5 GB, and the 100 MB of room left by a cleanup, in MiB.
MAX_CACHE_SIZE_MB == 5 * 1024
CLEANUP_MARGIN_MB == 100

\* The sizes of the buffers saved (0: an empty buffer).
BufferSizes == {0, 200, 3000}

CacheEntryOf(id, size) == [id |-> id, size |-> size, savedAt |-> id]

\* The indexes loaded from cache-index.json: empty, or near the limit.
LoadedIndexes ==
    { [entries |-> <<>>, totalSize |-> 0],
      [entries |-> <<CacheEntryOf(1, 5000)>>, totalSize |-> 5000],
      [entries |-> <<CacheEntryOf(1, 2500), CacheEntryOf(2, 2500)>>,
       totalSize |-> 5000] }

IdleSaver ==
    [pc |-> "idle", size |-> 0, targetSize |-> 0, sorted |-> <<>>,
     oldest |-> CacheEntryOf(0, 0), result |-> "none"]

\* subtracted: ghost, how often each entry's size was taken off totalSize.
NoCache ==
    [index |-> [entries |-> <<>>, totalSize |-> 0], files |-> {},
     nextId |-> 1, subtracted |-> <<>>, savers |-> <<>>]

\* [...entries].sort((a, b) => a.savedAt - b.savedAt): a stable sort.
RECURSIVE InsertBySavedAt(_, _)
InsertBySavedAt(sorted, e) ==
    IF sorted = <<>> THEN <<e>>
    ELSE IF e.savedAt < Head(sorted).savedAt THEN <<e>> \o sorted
    ELSE <<Head(sorted)>> \o InsertBySavedAt(Tail(sorted), e)

RECURSIVE SortBySavedAt(_)
SortBySavedAt(entries) ==
    IF entries = <<>> THEN <<>>
    ELSE InsertBySavedAt(SortBySavedAt(SubSeq(entries, 1, Len(entries) - 1)),
                         entries[Len(entries)])

\* index.entries.findIndex((e) => e.id === id), 1-based; 0 when not found.
FindIndex(entries, id) ==
    LET at == { i \in 1..Len(entries) : entries[i].id = id }
    IN  IF at = {} THEN 0 ELSE CHOOSE i \in at : \A j \in at : i <= j

\* cleanupOldEntries, after the unlink: the size is taken off totalSize and
\* the entry spliced out if it is found.
RemoveOldest(index, oldest) ==
    LET idx == FindIndex(index.entries, oldest.id)
    IN  [entries |-> IF idx > 0 THEN RemoveAt(index.entries, idx)
                     ELSE index.entries,
         totalSize |-> index.totalSize - oldest.size]

\* The head of cleanupOldEntries' while loop for saver record sv: the next
\* unlink is awaited, or the loop is left for the writeFile of the buffer.
CleanupHead(index, sv) ==
    IF index.totalSize > sv.targetSize /\ sv.sorted # <<>>
    THEN [sv EXCEPT !.pc = "unlink", !.oldest = Head(sv.sorted),
                    !.sorted = Tail(sv.sorted)]
    ELSE [sv EXCEPT !.pc = "write"]

\* saveToAgentCache(params) is called: an empty buffer returns null, any
\* other awaits loadCacheIndex.
SaveStart(p, size) ==
    /\ p = Len(cache.savers) + 1
    /\ p \in Savers
    /\ cache' = [cache EXCEPT !.savers = Append(@,
                    IF size = 0
                    THEN [IdleSaver EXCEPT !.pc = "done", !.result = "null"]
                    ELSE [IdleSaver EXCEPT !.pc = "load", !.size = size])]
    /\ UNCHANGED <<buf, gns, promo, notExt>>

\* loadCacheIndex has returned the cached index; fs.mkdir is awaited.
IndexLoaded(p) ==
    /\ p \in 1..Len(cache.savers)
    /\ cache.savers[p].pc = "load"
    /\ cache' = [cache EXCEPT !.savers[p].pc = "mkdir"]
    /\ UNCHANGED <<buf, gns, promo, notExt>>

\* fs.mkdir settles: a failure rejects the call; otherwise the limit is
\* checked and cleanupOldEntries entered if the new file would exceed it.
MkdirSettles(p, ok) ==
    /\ p \in 1..Len(cache.savers)
    /\ cache.savers[p].pc = "mkdir"
    /\ LET sv == cache.savers[p]
       IN  cache' = [cache EXCEPT !.savers[p] =
              IF ~ok THEN [sv EXCEPT !.pc = "done", !.result = "rejected"]
              ELSE IF cache.index.totalSize + sv.size > MAX_CACHE_SIZE_MB
              THEN LET t == MAX_CACHE_SIZE_MB - sv.size - CLEANUP_MARGIN_MB
                   IN  CleanupHead(cache.index,
                           [sv EXCEPT !.targetSize = IF t > 0 THEN t ELSE 0,
                                      !.sorted =
                                          SortBySavedAt(cache.index.entries)])
              ELSE [sv EXCEPT !.pc = "write"]]
    /\ UNCHANGED <<buf, gns, promo, notExt>>

\* fs.unlink(oldest.path) settles (a failure is ignored): the entry is taken
\* off the index and the loop goes round.
UnlinkSettles(p) ==
    /\ p \in 1..Len(cache.savers)
    /\ cache.savers[p].pc = "unlink"
    /\ LET sv    == cache.savers[p]
           index == RemoveOldest(cache.index, sv.oldest)
       IN  cache' = [cache EXCEPT
                       !.index = index,
                       !.files = @ \ {sv.oldest.id},
                       !.subtracted = Append(@, sv.oldest.id),
                       !.savers[p] = CleanupHead(index, sv)]
    /\ UNCHANGED <<buf, gns, promo, notExt>>

\* fs.writeFile(filePath, buffer) settles: the entry is pushed and its size
\* added, and saveCacheIndex awaited; a failure returns null.
WriteSettles(p, ok) ==
    /\ p \in 1..Len(cache.savers)
    /\ cache.savers[p].pc = "write"
    /\ LET sv == cache.savers[p]
           id == cache.nextId
       IN  cache' =
              IF ok
              THEN [cache EXCEPT
                      !.index = [entries |->
                                     Append(@.entries,
                                            CacheEntryOf(id, sv.size)),
                                 totalSize |-> @.totalSize + sv.size],
                      !.files = @ \cup {id},
                      !.nextId = id + 1,
                      !.savers[p].pc = "saveIndex"]
              ELSE [cache EXCEPT !.nextId = id + 1,
                                 !.savers[p].pc = "done",
                                 !.savers[p].result = "null"]
    /\ UNCHANGED <<buf, gns, promo, notExt>>

\* saveCacheIndex settles: the path is returned, or null when it threw.
SaveIndexSettles(p, ok) ==
    /\ p \in 1..Len(cache.savers)
    /\ cache.savers[p].pc = "saveIndex"
    /\ cache' = [cache EXCEPT !.savers[p].pc = "done",
                              !.savers[p].result =
                                  IF ok THEN "path" ELSE "null"]
    /\ UNCHANGED <<buf, gns, promo, notExt>>

CacheNext ==
    \/ \E p \in Savers, size \in BufferSizes : SaveStart(p, size)
    \/ \E p \in Savers : IndexLoaded(p)
    \/ \E p \in Savers, ok \in BOOLEAN : MkdirSettles(p, ok)
    \/ \E p \in Savers : UnlinkSettles(p)
    \/ \E p \in Savers, ok \in BOOLEAN : WriteSettles(p, ok)
    \/ \E p \in Savers, ok \in BOOLEAN : SaveIndexSettles(p, ok)

-----------------------------------------------------------------------------
(***************************************************************************)
(* Specifications                                                          *)
(***************************************************************************)

\* The values of the variables a specification leaves alone.
NoCall == [before |-> InitialBlockState, text |-> <<>>]
NoScanInput == [kind |-> "none", T |-> <<>>, F |-> <<>>, text |-> <<>>]
NoParams == [onBlockReply |-> FALSE, includeReasoning |-> FALSE]
NewStream == [events |-> <<>>, ended |-> FALSE]
NoPromises == [p \in PromiseIds |-> FreePromise]
NcIdle == [attempt |-> [enforceFinalTag |-> FALSE, aborted |-> FALSE,
                        timedOut |-> FALSE, assistantTexts |-> <<>>,
                        didSendViaMessagingTool |-> FALSE,
                        lastAssistant |-> NoAssistant],
           retryCount |-> 0, startCount |-> 0, result |-> NoAction,
           reprompts |-> 0, pc |-> "attempt"]

\* The scanner before the first chunk of a text, the rest idle.
InitScan ==
    /\ scanInput \in ScanInputs
    /\ rest = scanInput.text
    /\ nFed = 0 /\ lastChunk = <<>> /\ out = <<>>
    /\ lastCall = NoCall
    /\ blockState = InitialBlockState
    /\ sub = InitialSubState /\ subParams = NoParams
    /\ blockReplies = <<>> /\ toolLog = <<>> /\ lastEnd = NoEnd
    /\ profileCandidates = <<1, 2>> /\ authStore = {}
    /\ rotationState = createKeyRotationState
    /\ rot = RotIdleControl /\ outputStream = NewStream
    /\ calls = <<>> /\ attempts = <<>>
    /\ comp = CompInitial /\ promises = NoPromises /\ waiters = <<>>
    /\ activeReminders = 0 /\ reminderStates = <<>> /\ timers = {}
    /\ checks = <<>> /\ transcript = <<>> /\ idleLog = NoIdleLog
    /\ nc = NcIdle
    /\ buf = NoBuf
    /\ gns = NoGns
    /\ promo = NoPromo
    /\ cache = NoCache

InitCall ==
    /\ scanInput \in CallInputs
    /\ rest = scanInput.text
    /\ nFed = 0 /\ lastChunk = <<>> /\ out = <<>>
    /\ lastCall = NoCall
    /\ blockState = InitialBlockState
    /\ sub = InitialSubState /\ subParams = NoParams
    /\ blockReplies = <<>> /\ toolLog = <<>> /\ lastEnd = NoEnd
    /\ profileCandidates = <<1, 2>> /\ authStore = {}
    /\ rotationState = createKeyRotationState
    /\ rot = RotIdleControl /\ outputStream = NewStream
    /\ calls = <<>> /\ attempts = <<>>
    /\ comp = CompInitial /\ promises = NoPromises /\ waiters = <<>>
    /\ activeReminders = 0 /\ reminderStates = <<>> /\ timers = {}
    /\ checks = <<>> /\ transcript = <<>> /\ idleLog = NoIdleLog
    /\ nc = NcIdle
    /\ buf = NoBuf
    /\ gns = NoGns
    /\ promo = NoPromo
    /\ cache = NoCache

\* A subscription at the start of a turn, the rest idle.
InitSub ==
    /\ sub = InitialSubState
    /\ subParams \in [onBlockReply : BOOLEAN, includeReasoning : BOOLEAN]
    /\ blockReplies = <<>> /\ toolLog = <<>> /\ lastEnd = NoEnd
    /\ scanInput = NoScanInput /\ rest = <<>>
    /\ nFed = 0 /\ lastChunk = <<>> /\ out = <<>>
    /\ lastCall = NoCall
    /\ blockState = InitialBlockState
    /\ profileCandidates = <<1, 2>> /\ authStore = {}
    /\ rotationState = createKeyRotationState
    /\ rot = RotIdleControl /\ outputStream = NewStream
    /\ calls = <<>> /\ attempts = <<>>
    /\ comp = CompInitial /\ promises = NoPromises /\ waiters = <<>>
    /\ activeReminders = 0 /\ reminderStates = <<>> /\ timers = {}
    /\ checks = <<>> /\ transcript = <<>> /\ idleLog = NoIdleLog
    /\ nc = NcIdle
    /\ buf = NoBuf
    /\ gns = NoGns
    /\ promo = NoPromo
    /\ cache = NoCache

\* A subscription whose messaging-tool records hold the sends made so far,
\* the rest idle.
InitTrim ==
    /\ \E nTexts \in InitLens, nTargets \in InitLens, nUrls \in InitLens :
           sub = AfterSends(nTexts, nTargets, nUrls)
    /\ subParams = NoParams
    /\ blockReplies = <<>> /\ toolLog = <<>> /\ lastEnd = NoEnd
    /\ scanInput = NoScanInput /\ rest = <<>>
    /\ nFed = 0 /\ lastChunk = <<>> /\ out = <<>>
    /\ lastCall = NoCall
    /\ blockState = InitialBlockState
    /\ profileCandidates = <<1, 2>> /\ authStore = {}
    /\ rotationState = createKeyRotationState
    /\ rot = RotIdleControl /\ outputStream = NewStream
    /\ calls = <<>> /\ attempts = <<>>
    /\ comp = CompInitial /\ promises = NoPromises /\ waiters = <<>>
    /\ activeReminders = 0 /\ reminderStates = <<>> /\ timers = {}
    /\ checks = <<>> /\ transcript = <<>> /\ idleLog = NoIdleLog
    /\ nc = NcIdle
    /\ buf = NoBuf
    /\ gns = NoGns
    /\ promo = NoPromo
    /\ cache = NoCache

\* A subscription at the start of a turn, with reasoning included, no
\* block-reply callback and the final tag enforced or not, and no compaction
\* noted or in flight; the rest idle.
InitRetry ==
    /\ \E enforceFinalTag \in BOOLEAN :
           subParams = [onBlockReply |-> FALSE, includeReasoning |-> TRUE,
                        enforceFinalTag |-> enforceFinalTag]
    /\ sub = InitialSubState
    /\ blockReplies = <<>> /\ toolLog = <<>> /\ lastEnd = NoEnd
    /\ scanInput = NoScanInput /\ rest = <<>>
    /\ nFed = 0 /\ lastChunk = <<>> /\ out = <<>>
    /\ lastCall = NoCall
    /\ blockState = InitialBlockState
    /\ profileCandidates = <<1, 2>> /\ authStore = {}
    /\ rotationState = createKeyRotationState
    /\ rot = RotIdleControl /\ outputStream = NewStream
    /\ calls = <<>> /\ attempts = <<>>
    /\ comp = CompInitial /\ promises = NoPromises /\ waiters = <<>>
    /\ activeReminders = 0 /\ reminderStates = <<>> /\ timers = {}
    /\ checks = <<>> /\ transcript = <<>> /\ idleLog = NoIdleLog
    /\ nc = NcIdle
    /\ buf = NoBuf
    /\ gns = NoGns
    /\ promo = NoPromo
    /\ cache = NoCache

\* A text to repair, the rest idle.
InitRepair ==
    /\ scanInput \in RepairInputs
    /\ rest = <<>>
    /\ nFed = 0 /\ lastChunk = <<>> /\ out = <<>>
    /\ lastCall = NoCall
    /\ blockState = InitialBlockState
    /\ sub = InitialSubState /\ subParams = NoParams
    /\ blockReplies = <<>> /\ toolLog = <<>> /\ lastEnd = NoEnd
    /\ profileCandidates = <<1, 2>> /\ authStore = {}
    /\ rotationState = createKeyRotationState
    /\ rot = RotIdleControl /\ outputStream = NewStream
    /\ calls = <<>> /\ attempts = <<>>
    /\ comp = CompInitial /\ promises = NoPromises /\ waiters = <<>>
    /\ activeReminders = 0 /\ reminderStates = <<>> /\ timers = {}
    /\ checks = <<>> /\ transcript = <<>> /\ idleLog = NoIdleLog
    /\ nc = NcIdle
    /\ buf = NoBuf
    /\ gns = NoGns
    /\ promo = NoPromo
    /\ cache = NoCache

\* A chunk to scan and the block state carried to it, the rest idle.
InitOrphan ==
    /\ scanInput \in OrphanInputs
    /\ blockState \in [thinking : BOOLEAN, final : BOOLEAN,
                        inlineCode : {FALSE}]
    /\ rest = <<>>
    /\ nFed = 0 /\ lastChunk = <<>> /\ out = <<>>
    /\ lastCall = NoCall
    /\ sub = InitialSubState /\ subParams = NoParams
    /\ blockReplies = <<>> /\ toolLog = <<>> /\ lastEnd = NoEnd
    /\ profileCandidates = <<1, 2>> /\ authStore = {}
    /\ rotationState = createKeyRotationState
    /\ rot = RotIdleControl /\ outputStream = NewStream
    /\ calls = <<>> /\ attempts = <<>>
    /\ comp = CompInitial /\ promises = NoPromises /\ waiters = <<>>
    /\ activeReminders = 0 /\ reminderStates = <<>> /\ timers = {}
    /\ checks = <<>> /\ transcript = <<>> /\ idleLog = NoIdleLog
    /\ nc = NcIdle
    /\ buf = NoBuf
    /\ gns = NoGns
    /\ promo = NoPromo
    /\ cache = NoCache

InitEmit ==
    /\ sub = InitialSubState
    /\ subParams \in [onBlockReply : BOOLEAN, includeReasoning : BOOLEAN]
    /\ blockReplies = <<>> /\ toolLog = <<>> /\ lastEnd = NoEnd
    /\ scanInput = NoScanInput /\ rest = <<>>
    /\ nFed = 0 /\ lastChunk = <<>> /\ out = <<>>
    /\ lastCall = NoCall
    /\ blockState = InitialBlockState
    /\ profileCandidates = <<1, 2>> /\ authStore = {}
    /\ rotationState = createKeyRotationState
    /\ rot = RotIdleControl /\ outputStream = NewStream
    /\ calls = <<>> /\ attempts = <<>>
    /\ comp = CompInitial /\ promises = NoPromises /\ waiters = <<>>
    /\ activeReminders = 0 /\ reminderStates = <<>> /\ timers = {}
    /\ checks = <<>> /\ transcript = <<>> /\ idleLog = NoIdleLog
    /\ nc = NcIdle
    /\ buf = NoBuf
    /\ gns = NoGns
    /\ promo = NoPromo
    /\ cache = NoCache

\* A wrapper over two or three candidates, some of them in a cooldown
\* window, before its first call; the rest idle.
InitRot ==
    /\ profileCandidates \in CandidateLists
    /\ authStore \in SUBSET {1, 2}
    /\ rotationState = createKeyRotationState
    /\ rot = RotIdleControl /\ outputStream = NewStream
    /\ calls = <<>> /\ attempts = <<>>
    /\ scanInput = NoScanInput /\ rest = <<>>
    /\ nFed = 0 /\ lastChunk = <<>> /\ out = <<>>
    /\ lastCall = NoCall
    /\ blockState = InitialBlockState
    /\ sub = InitialSubState /\ subParams = NoParams
    /\ blockReplies = <<>> /\ toolLog = <<>> /\ lastEnd = NoEnd
    /\ comp = CompInitial /\ promises = NoPromises /\ waiters = <<>>
    /\ activeReminders = 0 /\ reminderStates = <<>> /\ timers = {}
    /\ checks = <<>> /\ transcript = <<>> /\ idleLog = NoIdleLog
    /\ nc = NcIdle
    /\ buf = NoBuf
    /\ gns = NoGns
    /\ promo = NoPromo
    /\ cache = NoCache

\* A subscription with no compaction noted or in flight, the rest idle.
InitComp ==
    /\ comp = CompInitial /\ promises = NoPromises /\ waiters = <<>>
    /\ scanInput = NoScanInput /\ rest = <<>>
    /\ nFed = 0 /\ lastChunk = <<>> /\ out = <<>>
    /\ lastCall = NoCall
    /\ blockState = InitialBlockState
    /\ sub = InitialSubState /\ subParams = NoParams
    /\ blockReplies = <<>> /\ toolLog = <<>> /\ lastEnd = NoEnd
    /\ profileCandidates = <<1, 2>> /\ authStore = {}
    /\ rotationState = createKeyRotationState
    /\ rot = RotIdleControl /\ outputStream = NewStream
    /\ calls = <<>> /\ attempts = <<>>
    /\ activeReminders = 0 /\ reminderStates = <<>> /\ timers = {}
    /\ checks = <<>> /\ transcript = <<>> /\ idleLog = NoIdleLog
    /\ nc = NcIdle
    /\ buf = NoBuf
    /\ gns = NoGns
    /\ promo = NoPromo
    /\ cache = NoCache

\* A session without an idle reminder and with an empty transcript, the rest
\* idle.
InitIdle ==
    /\ activeReminders = 0 /\ reminderStates = <<>> /\ timers = {}
    /\ checks = <<>> /\ transcript = <<>> /\ idleLog = NoIdleLog
    /\ nc = NcIdle
    /\ scanInput = NoScanInput /\ rest = <<>>
    /\ nFed = 0 /\ lastChunk = <<>> /\ out = <<>>
    /\ lastCall = NoCall
    /\ blockState = InitialBlockState
    /\ sub = InitialSubState /\ subParams = NoParams
    /\ blockReplies = <<>> /\ toolLog = <<>> /\ lastEnd = NoEnd
    /\ profileCandidates = <<1, 2>> /\ authStore = {}
    /\ rotationState = createKeyRotationState
    /\ rot = RotIdleControl /\ outputStream = NewStream
    /\ calls = <<>> /\ attempts = <<>>
    /\ comp = CompInitial /\ promises = NoPromises /\ waiters = <<>>
    /\ buf = NoBuf
    /\ gns = NoGns
    /\ promo = NoPromo
    /\ cache = NoCache

\* A run loop whose attempt has just ended, with any retryCount; the rest
\* idle.
InitNc ==
    /\ \E a \in NcAttempts, retryCount \in 0..MaxRetryCount :
           nc = NcStart(a, retryCount)
    /\ activeReminders = 0 /\ reminderStates = <<>> /\ timers = {}
    /\ checks = <<>> /\ transcript = <<>> /\ idleLog = NoIdleLog
    /\ scanInput = NoScanInput /\ rest = <<>>
    /\ nFed = 0 /\ lastChunk = <<>> /\ out = <<>>
    /\ lastCall = NoCall
    /\ blockState = InitialBlockState
    /\ sub = InitialSubState /\ subParams = NoParams
    /\ blockReplies = <<>> /\ toolLog = <<>> /\ lastEnd = NoEnd
    /\ profileCandidates = <<1, 2>> /\ authStore = {}
    /\ rotationState = createKeyRotationState
    /\ rot = RotIdleControl /\ outputStream = NewStream
    /\ calls = <<>> /\ attempts = <<>>
    /\ comp = CompInitial /\ promises = NoPromises /\ waiters = <<>>
    /\ buf = NoBuf
    /\ gns = NoGns
    /\ promo = NoPromo
    /\ cache = NoCache

\* The buffering wrapper before its first call, the rest idle.
InitBuf ==
    /\ buf = NoBuf
    /\ scanInput = NoScanInput /\ rest = <<>>
    /\ nFed = 0 /\ lastChunk = <<>> /\ out = <<>>
    /\ lastCall = NoCall
    /\ blockState = InitialBlockState
    /\ sub = InitialSubState /\ subParams = NoParams
    /\ blockReplies = <<>> /\ toolLog = <<>> /\ lastEnd = NoEnd
    /\ profileCandidates = <<1, 2>> /\ authStore = {}
    /\ rotationState = createKeyRotationState
    /\ rot = RotIdleControl /\ outputStream = NewStream
    /\ calls = <<>> /\ attempts = <<>>
    /\ comp = CompInitial /\ promises = NoPromises /\ waiters = <<>>
    /\ activeReminders = 0 /\ reminderStates = <<>> /\ timers = {}
    /\ checks = <<>> /\ transcript = <<>> /\ idleLog = NoIdleLog
    /\ nc = NcIdle
    /\ gns = NoGns
    /\ promo = NoPromo
    /\ cache = NoCache

\* The non-streaming wrapper before a call, the rest idle.
InitGns ==
    /\ gns = NoGns
    /\ buf = NoBuf
    /\ scanInput = NoScanInput /\ rest = <<>>
    /\ nFed = 0 /\ lastChunk = <<>> /\ out = <<>>
    /\ lastCall = NoCall
    /\ blockState = InitialBlockState
    /\ sub = InitialSubState /\ subParams = NoParams
    /\ blockReplies = <<>> /\ toolLog = <<>> /\ lastEnd = NoEnd
    /\ profileCandidates = <<1, 2>> /\ authStore = {}
    /\ rotationState = createKeyRotationState
    /\ rot = RotIdleControl /\ outputStream = NewStream
    /\ calls = <<>> /\ attempts = <<>>
    /\ comp = CompInitial /\ promises = NoPromises /\ waiters = <<>>
    /\ activeReminders = 0 /\ reminderStates = <<>> /\ timers = {}
    /\ checks = <<>> /\ transcript = <<>> /\ idleLog = NoIdleLog
    /\ nc = NcIdle
    /\ promo = NoPromo
    /\ cache = NoCache

\* An assistant message before promoteCallTagsToBlocks, the rest idle.
InitPromo ==
    /\ \E message \in PromoMessages :
           promo = [NoPromo EXCEPT !.message = message]
    /\ gns = NoGns
    /\ buf = NoBuf
    /\ scanInput = NoScanInput /\ rest = <<>>
    /\ nFed = 0 /\ lastChunk = <<>> /\ out = <<>>
    /\ lastCall = NoCall
    /\ blockState = InitialBlockState
    /\ sub = InitialSubState /\ subParams = NoParams
    /\ blockReplies = <<>> /\ toolLog = <<>> /\ lastEnd = NoEnd
    /\ profileCandidates = <<1, 2>> /\ authStore = {}
    /\ rotationState = createKeyRotationState
    /\ rot = RotIdleControl /\ outputStream = NewStream
    /\ calls = <<>> /\ attempts = <<>>
    /\ comp = CompInitial /\ promises = NoPromises /\ waiters = <<>>
    /\ activeReminders = 0 /\ reminderStates = <<>> /\ timers = {}
    /\ checks = <<>> /\ transcript = <<>> /\ idleLog = NoIdleLog
    /\ nc = NcIdle
    /\ cache = NoCache

\* An agent's cache with its index loaded and no call in progress, the
\* rest idle.
InitCache ==
    /\ \E index \in LoadedIndexes :
           cache = [NoCache EXCEPT
                      !.index = index,
                      !.files = { index.entries[i].id :
                                      i \in 1..Len(index.entries) },
                      !.nextId = Len(index.entries) + 1]
    /\ promo = NoPromo
    /\ gns = NoGns
    /\ buf = NoBuf
    /\ scanInput = NoScanInput /\ rest = <<>>
    /\ nFed = 0 /\ lastChunk = <<>> /\ out = <<>>
    /\ lastCall = NoCall
    /\ blockState = InitialBlockState
    /\ sub = InitialSubState /\ subParams = NoParams
    /\ blockReplies = <<>> /\ toolLog = <<>> /\ lastEnd = NoEnd
    /\ profileCandidates = <<1, 2>> /\ authStore = {}
    /\ rotationState = createKeyRotationState
    /\ rot = RotIdleControl /\ outputStream = NewStream
    /\ calls = <<>> /\ attempts = <<>>
    /\ comp = CompInitial /\ promises = NoPromises /\ waiters = <<>>
    /\ activeReminders = 0 /\ reminderStates = <<>> /\ timers = {}
    /\ checks = <<>> /\ transcript = <<>> /\ idleLog = NoIdleLog
    /\ nc = NcIdle

SpecScan == InitScan /\ [][ScanNext]_vars

SpecCall == InitCall /\ [][CallNext]_vars

SpecSub == InitSub /\ [][SubNext]_vars

SpecTrim == InitTrim /\ [][TrimNext]_vars

SpecRepair == InitRepair /\ [][RepairNext]_vars

SpecOrphan == InitOrphan /\ [][OrphanNext]_vars

SpecRetry == InitRetry /\ [][RetryNext]_vars

SpecEmit == InitEmit /\ [][EmitNext]_vars

SpecRot == InitRot /\ [][RotNext]_vars

\* The rotation with the scheduling of the async body: its next step runs
\* once the promise it awaits (resolveApiKey, streamFn, the next event of the
\* underlying stream) has settled, and the underlying stream terminates.
SpecRotLive ==
    /\ InitRot /\ [][RotNext]_vars
    /\ WF_vars(SkipCooldown \/ ResolveFails \/ AllKeysExhausted
                 \/ \E b \in Behaviours : CallStreamFn(b))
    /\ WF_vars(ConsumeEvent \/ InnerStreamEnds \/ InnerThrows)

SpecComp == InitComp /\ [][CompNext]_vars

\* The coordinator with the scheduling the runtime guarantees: a queued
\* microtask runs.
SpecCompLive ==
    /\ InitComp /\ [][CompNext]_vars
    /\ \A i \in 1..MaxWaiters : WF_vars(RunMicrotask(i))

SpecIdle == InitIdle /\ [][IdleNext]_vars

SpecNc == InitNc /\ [][NcNext]_vars

SpecBuf == InitBuf /\ [][BufNext]_vars

SpecGns == InitGns /\ [][GnsNext]_vars

SpecPromo == InitPromo /\ [][PromoNext]_vars

SpecCache == InitCache /\ [][CacheNext]_vars

-----------------------------------------------------------------------------
(***************************************************************************)
(* Properties of the tag scanner (SpecScan)                                *)
(***************************************************************************)

\* The text was fed to the end.
ScanDone == nFed > 0 /\ rest = <<>>

\* The text was fed as one chunk.
FedWhole == nFed = 1 /\ rest = <<>>

\* C1: in enforcement mode, whatever the chunks a text is fed in, no text
\* that lies inside a thinking span appears in any chunk's output.  Reasoning
\* text is the character "s", which the inputs hold inside thinking spans
\* only, so the claim is that "s" never occurs in the outputs.
C1_NoThinkingTextInOutput ==
    \A i \in 1..Len(out) : out[i] # "s"

\* C2: for every text <think>T</think><final>F</final> and every way of
\* cutting it into chunks, the outputs concatenated are exactly F.
C2_ChunkingInvariance ==
    (scanInput.kind = "wellformed" /\ ScanDone) => out = scanInput.F

-----------------------------------------------------------------------------
(***************************************************************************)
(* Properties of the key-rotation wrapper (SpecRot)                        *)
(***************************************************************************)

\* The wrapped call has ended its output stream.
CallDone == rot.pc = "done"

\* The underlying function was called for attempt a (no cooldown skip, the
\* key resolved).
Called(a) == a.outcome \notin {"cooldown", "resolve_failed"}

HasErrorEvent(events) == \E i \in 1..Len(events) : events[i].type = "error"

\* What the underlying stream of attempt a did, whatever the wrapper made of
\* it: it ended in a rate-limit/overload error (event or exception), it ended
\* in another error, or it succeeded.
EndedRateLimited(a) ==
    /\ Called(a)
    /\ \/ IsRetriableMessage(a.threw)
       \/ \E i \in 1..Len(a.produced) :
              /\ a.produced[i].type = "error"
              /\ IsRetriableMessage(a.produced[i].class)

EndedNonRetriable(a) ==
    /\ Called(a)
    /\ ~EndedRateLimited(a)
    /\ a.threw # "" \/ HasErrorEvent(a.produced)

Succeeded(a) ==
    Called(a) /\ a.threw = "" /\ ~HasErrorEvent(a.produced)

\* C5: whatever the underlying streams do, a wrapped call delivers either
\* the complete event sequence of one successful candidate or exactly one
\* error event; no event of a candidate whose attempt failed is forwarded
\* (an attempt's own error event, forwarded alone, is let pass here).
C5_SuccessReplayOrOneError ==
    CallDone =>
        \/ \E a \in 1..Len(attempts) :
               /\ Succeeded(attempts[a])
               /\ outputStream.events = attempts[a].produced
        \/ /\ Len(outputStream.events) = 1
           /\ outputStream.events[1].type = "error"

\* None of the call's candidates was in a cooldown window when it began.
NoneInCooldown ==
    \A i \in 1..Len(profileCandidates) :
        profileCandidates[i] \notin rot.cooldownAtStart

\* The attempts of the call were k rate-limited ones and then a success.
RateLimitedThenSuccess(k) ==
    /\ CallDone /\ NoneInCooldown
    /\ Len(attempts) = k + 1
    /\ \A a \in 1..k : EndedRateLimited(attempts[a])
    /\ Succeeded(attempts[k + 1])

\* The candidate of the call's i-th underlying call, in rotation order.
RotationCandidate(i) ==
    profileCandidates[((rot.startIndex + i - 1) % Len(profileCandidates)) + 1]

\* C6: with n >= 2 candidates, none in cooldown, if the first k < n
\* candidates tried each end in a rate-limit/overload error and the next one
\* succeeds, downstream receives exactly that candidate's events, k+1
\* underlying calls are made, each with the key of a different candidate in
\* rotation order, and allKeysExhausted is false.
C6_RotatesToFirstSuccess ==
    \A k \in 0..(Len(profileCandidates) - 1) :
        RateLimitedThenSuccess(k) =>
            /\ outputStream.events = attempts[k + 1].produced
            /\ outputStream.ended
            /\ Len(calls) = k + 1
            /\ \A i \in 1..(k + 1) :
                   /\ calls[i].apiKey = KeyOf(RotationCandidate(i))
                   /\ \A j \in 1..(k + 1) :
                          i # j => calls[i].apiKey # calls[j].apiKey
            /\ ~rotationState.allKeysExhausted

\* C6's case: three candidates, the first two rate-limited, the third's
\* events delivered.
C6_Witness ==
    /\ Len(profileCandidates) = 3
    /\ RateLimitedThenSuccess(2)
    /\ Len(outputStream.events) = 3
    /\ Len(calls) = 3

\* C7: if every candidate of a call ends in a rate-limit/overload error,
\* downstream receives exactly one event, the synthetic "all keys exhausted"
\* error, the underlying function was called once per candidate, and
\* allKeysExhausted is true.  (A call that is over with every attempt made so
\* far rate-limited must have gone through all the candidates.)
C7_AllRateLimitedExhausts ==
    ( /\ CallDone
      /\ attempts # <<>>
      /\ \A a \in 1..Len(attempts) : EndedRateLimited(attempts[a]) ) =>
        /\ outputStream.events = <<ExhaustedError>>
        /\ outputStream.ended
        /\ Len(calls) = Len(profileCandidates)
        /\ \A i, j \in 1..Len(calls) :
               i # j => calls[i].candidateIndex # calls[j].candidateIndex
        /\ rotationState.allKeysExhausted

\* C7's case: three candidates, each rate-limited or overloaded in turn.
C7_Witness ==
    /\ CallDone
    /\ Len(profileCandidates) = 3
    /\ Len(attempts) = 3
    /\ \A a \in 1..3 : EndedRateLimited(attempts[a])
    /\ rotationState.allKeysExhausted
    /\ outputStream.events = <<ExhaustedError>>

\* C8: when an attempt ends in an error that is not a rate-limit/overload
\* error, as an error event of the stream or as an exception, no further
\* candidate is tried, downstream receives a single error event and nothing
\* else, and allKeysExhausted stays false.
C8_NonRetriableStops ==
    CallDone =>
        \A a \in 1..Len(attempts) :
            EndedNonRetriable(attempts[a]) =>
                /\ a = Len(attempts)
                /\ Len(outputStream.events) = 1
                /\ outputStream.events[1].type = "error"
                /\ ~rotationState.allKeysExhausted
-----------------------------------------------------------------------------
(***************************************************************************)
(* Properties of the messaging-tool dedup guard (SpecSub)                  *)
(***************************************************************************)

\* A message_end has happened.
Ended == lastEnd.text # <<>>

RECURSIVE SuccessfulSends(_)
SuccessfulSends(log) ==
    IF log = <<>> THEN <<>>
    ELSE IF Head(log).isError THEN SuccessfulSends(Tail(log))
    ELSE <<Head(log).text>> \o SuccessfulSends(Tail(log))

SameNormalized(a, b) ==
    normalizeTextForComparison(a) = normalizeTextForComparison(b)

\* The final text was left out: nothing was added to assistantTexts and no
\* block reply was made.
Suppressed ==
    /\ sub.assistantTexts = lastEnd.textsBefore
    /\ blockReplies = lastEnd.repliesBefore

\* The final text was kept in assistantTexts and delivered as a block reply.
KeptAndDelivered ==
    /\ sub.assistantTexts = Append(lastEnd.textsBefore, lastEnd.text)
    /\ subParams.onBlockReply =>
           blockReplies = Append(lastEnd.repliesBefore, lastEnd.text)

\* C4 as stated: a final text that equals, normalized, the text of the last
\* messaging-tool send is left out and makes no block reply if that send
\* succeeded, and is kept and delivered if that send failed.
C4_LastSendDecides ==
    ( /\ Ended /\ lastEnd.first
      /\ lastEnd.logBefore # <<>>
      /\ SameNormalized(lastEnd.text,
                        lastEnd.logBefore[Len(lastEnd.logBefore)].text) ) =>
        IF lastEnd.logBefore[Len(lastEnd.logBefore)].isError
        THEN KeptAndDelivered
        ELSE Suppressed

\* C4 amended: the first final text of an assistant message is left out and
\* makes no block reply if it equals, normalized, the text of the most
\* recent successful messaging-tool send, and is kept and delivered
\* otherwise (so a failed send suppresses nothing by itself); the sent
\* records hold the successful sends only.
C4_LastSuccessfulSendDecides ==
    /\ sub.messagingToolSentTexts = SuccessfulSends(toolLog)
    /\ (Ended /\ lastEnd.first) =>
           LET sent == SuccessfulSends(lastEnd.logBefore)
           IN  IF sent # <<>> /\ SameNormalized(lastEnd.text, sent[Len(sent)])
               THEN Suppressed
               ELSE KeptAndDelivered

\* C4's cases: a text suppressed after a successful send of it, and a text
\* kept and delivered after a failed send of it.
C4_Witness ==
    /\ Ended /\ lastEnd.first /\ subParams.onBlockReply
    /\ Len(lastEnd.logBefore) = 1
    /\ lastEnd.logBefore[1].isError
    /\ lastEnd.logBefore[1].text = lastEnd.text
    /\ sub.assistantTexts = <<lastEnd.text>>
    /\ blockReplies = <<lastEnd.text>>
    /\ sub.messagingToolSentTexts = <<>>
-----------------------------------------------------------------------------
(***************************************************************************)
(* Properties of the compaction-retry coordinator (SpecComp)               *)
(***************************************************************************)

Waiters == { waiters[i] : i \in 1..Len(waiters) }

\* C9: a promise returned by waitForCompactionRetry while k >= 1 retries are
\* pending and no compaction is in flight is not resolved before
\* resolveCompactionRetry has been called k times, and is resolved once it
\* has (the k calls being all that happened to the coordinator meanwhile);
\* returned while nothing is pending or in flight, it resolves without any
\* further call, as soon as its microtask has run.
C9_ResolvedAfterMatchingCalls ==
    \A w \in Waiters :
        /\ (w.k >= 1 /\ WaiterStatus(w) = "resolved") => w.owed = 0
        /\ (w.scenario = "counted" /\ w.owed = 0) =>
               WaiterStatus(w) = "resolved"
        /\ (w.scenario = "counted" /\ w.owed > 0) =>
               WaiterStatus(w) = "pending"
        /\ (w.scenario = "idle" /\ w.micro = "ran") =>
               WaiterStatus(w) = "resolved"

\* C9's case: a promise returned with two retries pending, resolved by the
\* second resolveCompactionRetry call.
C9_Witness ==
    \E w \in Waiters :
        /\ w.scenario = "counted" /\ w.k = 2 /\ w.owed = 0
        /\ WaiterStatus(w) = "resolved"

\* C10: after unsubscribe during an outstanding compaction wait, every
\* promise waitForCompactionRetry had returned that was still pending is
\* rejected (the one of a call whose microtask has not run yet, as soon as
\* it runs) and is never resolved, whatever resolveCompactionRetry or the
\* end of the compaction do afterwards.
C10_UnsubscribeRejectsWaits ==
    comp.unsubscribed =>
        \A i \in comp.pendingAtUnsubscribe :
            /\ WaiterStatus(waiters[i]) # "resolved"
            /\ waiters[i].promise # 0 => WaiterStatus(waiters[i]) = "rejected"
            /\ waiters[i].micro # "queued" =>
                   WaiterStatus(waiters[i]) = "rejected"

\* C10's case: a wait with a retry pending was rejected by unsubscribe, and
\* resolveCompactionRetry has brought the count to zero since.
C10_Witness ==
    /\ comp.unsubscribed
    /\ comp.settledAfterUnsubscribe
    /\ comp.pendingCompactionRetry = 0
    /\ ~comp.compactionInFlight
    /\ \E i \in comp.pendingAtUnsubscribe :
           /\ waiters[i].promise # 0
           /\ waiters[i].k >= 1
           /\ WaiterStatus(waiters[i]) = "rejected"

\* isCompacting(): work is noted or in flight.
isCompacting == comp.compactionInFlight \/ comp.pendingCompactionRetry > 0

\* C11 as claimed: in every reachable state the shared compaction promise
\* exists exactly when pendingCompactionRetry > 0 or compactionInFlight.
C11_PromiseIffCompacting ==
    (comp.compactionRetryPromise # 0) <=> isCompacting

\* C11 amended: until unsubscribe the shared promise exists exactly when
\* pendingCompactionRetry > 0 or compactionInFlight; after unsubscribe it
\* may be absent while work is still counted, and it never exists without
\* such work.
C11_PromiseIffCompactingUntilUnsubscribe ==
    /\ ~comp.unsubscribed =>
           ((comp.compactionRetryPromise # 0) <=> isCompacting)
    /\ comp.compactionRetryPromise # 0 => isCompacting

\* C11's case: a subscription that created its promise, retired it when the
\* last retry was resolved and holds a second one for new work.
C11_Witness ==
    /\ ~comp.unsubscribed
    /\ comp.compactionRetryPromise # 0
    /\ comp.pendingCompactionRetry > 0
    /\ \E w \in Waiters :
           /\ w.promise # 0
           /\ w.promise # comp.compactionRetryPromise
           /\ WaiterStatus(w) = "resolved"

Settled(p) ==
    promises[p].status \in {"resolved", "rejected"} /\ promises[p].settles = 1

\* C12: a shared compaction promise that leaves the slot has been resolved
\* or rejected, by exactly one call of its resolve or reject function; no
\* promise is settled twice.
C12_RetiredExactlyOnce ==
    /\ ~comp.retiredUnsettled
    /\ \A p \in PromiseIds :
           /\ promises[p].settles <= 1
           /\ promises[p].status = "pending" => promises[p].settles = 0
    /\ \A w \in Waiters :
           (w.promise # 0 /\ w.promise # comp.compactionRetryPromise) =>
               Settled(w.promise)

\* C12's case: unsubscribe retired the shared promise by rejecting it, and
\* resolveCompactionRetry has brought the count to zero afterwards.
C12_Witness ==
    /\ comp.compactionRetryPromise = 0
    /\ comp.settledAfterUnsubscribe
    /\ comp.pendingCompactionRetry = 0 /\ ~comp.compactionInFlight
    /\ \E w \in Waiters :
           /\ w.promise # 0
           /\ promises[w.promise] = [status |-> "rejected", settles |-> 1]

C13_CalledOnce ==
    /\ comp.sessionUnsubscribeCalls = (IF comp.unsubscribed THEN 1 ELSE 0)
    /\ comp.abortCompactionCalls <= 1
    /\ (comp.unsubscribed =>
           unsubscribe(comp, promises) = [st |-> comp, ps |-> promises])

C13_RepeatChangesNothing ==
    (~comp.unsubscribedAgain /\ comp'.unsubscribedAgain) =>
        (/\ comp' = [comp EXCEPT !.unsubscribedAgain = TRUE]
         /\ promises' = promises
         /\ waiters' = waiters)

C13_OnlyFirstRejects ==
    (\E p \in PromiseIds : /\ promises[p].status = "pending"
                           /\ promises'[p].status = "rejected") =>
        (~comp.unsubscribed /\ comp'.unsubscribed)

\* C13: the session's unsubscribe callback has run once as soon as
\* unsubscribe was called and never again, the compaction abort is requested
\* at most once, unsubscribe called on an unsubscribed subscription returns
\* the state and the promises it was given, a repeated call is a step that
\* changes nothing, and a promise is rejected only by the call that sets
\* unsubscribed.
C13_SecondUnsubscribeNoOp ==
    /\ [](C13_CalledOnce)
    /\ [][C13_RepeatChangesNothing /\ C13_OnlyFirstRejects]_vars

\* C13's case: unsubscribe was called again after the call that rejected a
\* wait and aborted the compaction in flight.
C13_Witness ==
    /\ comp.unsubscribedAgain
    /\ comp.abortCompactionCalls = 1
    /\ comp.sessionUnsubscribeCalls = 1
    /\ \E i \in comp.pendingAtUnsubscribe :
           waiters[i].promise # 0 /\ WaiterStatus(waiters[i]) = "rejected"

-----------------------------------------------------------------------------
(***************************************************************************)
(* Properties of the idle reminder (SpecIdle)                              *)
(***************************************************************************)

\* The outcomes of a tick in which a step of the check body threw.
ThrowOutcomes == {"threw", "sendThrows", "replyThrows", "deliveryThrows"}

\* C14: a session that is registered as active has a timer armed or a
\* check in flight; in particular, after a tick in which a step of the
\* check body threw, a timer is armed again unless the entry was removed
\* (the maximum count reached, or the reminder stopped).
C14_RearmedAfterThrow ==
    /\ activeReminders # 0 => (timers # {} \/ checks # <<>>)
    /\ (idleLog.last \in ThrowOutcomes /\ activeReminders # 0
          /\ checks = <<>>) => timers # {}

-----------------------------------------------------------------------------
(***************************************************************************)
(* Properties of the non-conforming output handler (SpecNc)                *)
(***************************************************************************)

\* The trimmed raw text of the attempt that was checked.
NcRawText == trim(nc.attempt.lastAssistant.text)

\* C15: when checkNonConformingOutput takes action, the action is a retry
\* with the fixed follow-up prompt if retryCount < MAX_RETRIES and a
\* fallback with the trimmed raw text if retryCount >= MAX_RETRIES; a run
\* loop that adds one to retryCount per retry prompts again at most
\* MAX_RETRIES times.
C15_RetryThenFallback ==
    /\ (nc.pc = "checked" /\ nc.result.action # "null") =>
           IF nc.retryCount < MAX_RETRIES
           THEN nc.result = [action |-> "retry",
                             prompt |-> NON_CONFORMING_FOLLOWUP_PROMPT]
           ELSE nc.result = [action |-> "fallback", text |-> NcRawText]
    /\ nc.reprompts <= MAX_RETRIES
    /\ nc.startCount >= MAX_RETRIES => nc.reprompts = 0

\* C15's case: a run loop that started at retryCount 0, prompted again
\* three times and now falls back to the raw text, trimmed.
C15_Witness ==
    /\ nc.pc = "checked"
    /\ nc.startCount = 0 /\ nc.reprompts = MAX_RETRIES
    /\ nc.result.action = "fallback"
    /\ nc.result.text # nc.attempt.lastAssistant.text

\* C16: checkNonConformingOutput returns an action exactly when enforcement
\* is on, the attempt was neither aborted nor timed out, assistantTexts is
\* empty, no messaging-tool send succeeded, the stop reason is "stop", and
\* the trimmed raw text is longer than MIN_TEXT_LENGTH and no silent-reply
\* text; whatever retryCount is.
C16_ActionIffPreconditions ==
    nc.pc = "checked" =>
        (nc.result.action # "null" <=>
            /\ nc.attempt.enforceFinalTag
            /\ ~nc.attempt.aborted /\ ~nc.attempt.timedOut
            /\ nc.attempt.assistantTexts = <<>>
            /\ ~nc.attempt.didSendViaMessagingTool
            /\ nc.attempt.lastAssistant.stopReason = "stop"
            /\ Len(NcRawText) > MIN_TEXT_LENGTH
            /\ ~isSilentReplyText(NcRawText))

\* C16's case: no action at retryCount = MAX_RETRIES for a text of exactly
\* MIN_TEXT_LENGTH characters between white space, all else asking for one.
C16_Witness ==
    /\ nc.pc = "checked" /\ nc.result = NoAction
    /\ nc.retryCount = MAX_RETRIES
    /\ nc.attempt.enforceFinalTag
    /\ ~nc.attempt.aborted /\ ~nc.attempt.timedOut
    /\ nc.attempt.assistantTexts = <<>>
    /\ ~nc.attempt.didSendViaMessagingTool
    /\ nc.attempt.lastAssistant.stopReason = "stop"
    /\ Len(nc.attempt.lastAssistant.text) > MIN_TEXT_LENGTH
    /\ Len(NcRawText) = MIN_TEXT_LENGTH

-----------------------------------------------------------------------------
(***************************************************************************)
(* Further properties of the tag scanner (SpecScan)                        *)
(***************************************************************************)

\* The text the thinking pass of stripBlockTags leaves of a chunk in
\* enforcement mode (the variable processed at line 444), which the final
\* pass reads.
ProcessedAfterOrphans(last, repaired, state) ==
    IF last > 0
    THEN ThinkPass(THINKING_TAG_SCAN_RE(SliceFrom(repaired, last)), 1, <<>>, 0,
                   FALSE, SliceFrom(repaired, last), last, repaired, FALSE,
                   state.inlineCode).processed
    ELSE ThinkPass(THINKING_TAG_SCAN_RE(repaired), 1, <<>>, 0,
                   state.thinking, repaired, 0, repaired, FALSE,
                   state.inlineCode).processed

ProcessedRepaired(repaired, state) ==
    ProcessedAfterOrphans(
        OrphanedCloseEnd(THINKING_TAG_SCAN_RE(repaired), 1, state.thinking,
                         -1, repaired, FALSE, state.inlineCode),
        repaired, state)

ProcessedOf(text, state) ==
    ProcessedRepaired(repairMalformedReasoningTags(text), state)

\* Reading a text as the protocol means it, from offset i on: the characters
\* that lie inside a final span that was opened and not yet closed (inFinal
\* tells whether one is open at i), and whether one is open at the end.
RECURSIVE InsideFinalFrom(_, _, _)
InsideFinalFrom(p, i, inFinal) ==
    IF i >= Len(p) THEN [text |-> <<>>, final |-> inFinal]
    ELSE LET m == ScanTagAt(p, i, FinalNames)
         IN  IF m.ok THEN InsideFinalFrom(p, m.end, ~m.close)
             ELSE LET r == InsideFinalFrom(p, i + 1, inFinal)
                  IN  [text  |-> IF inFinal THEN <<p[i + 1]>> \o r.text
                                 ELSE r.text,
                       final |-> r.final]

\* Whether the text a is made of characters of b, in their order.
RECURSIVE IsSubSeq(_, _)
IsSubSeq(a, b) ==
    IF a = <<>> THEN TRUE
    ELSE IF b = <<>> THEN FALSE
    ELSE IF Head(a) = Head(b) THEN IsSubSeq(Tail(a), Tail(b))
    ELSE IsSubSeq(a, Tail(b))

HasFinalOpen(p) ==
    \E k \in 1..Len(FINAL_TAG_SCAN_RE(p)) : ~FINAL_TAG_SCAN_RE(p)[k].close

HasFinalClose(p) ==
    \E k \in 1..Len(FINAL_TAG_SCAN_RE(p)) : FINAL_TAG_SCAN_RE(p)[k].close

\* What the last scanner call makes of its chunk, read as the protocol
\* means it: the text inside final spans and the span state at the end.
LastCallInside ==
    InsideFinalFrom(ProcessedOf(lastChunk, lastCall.before), 0,
                    lastCall.before.final)

\* C17: in enforcement mode a scanner call outputs only text that lies
\* inside a final span opened and not yet closed (spans read on what the
\* thinking pass leaves of the chunk, state.final telling whether one is
\* open at the start), and leaves state.final telling whether one is open
\* at the end; a chunk without an opening final tag met with state.final
\* false, whether it holds a closing final tag or none, gives empty output
\* and leaves state.final false.
C17_OnlyInsideFinalSpan ==
    nFed > 0 =>
        /\ IsSubSeq(lastCall.text, LastCallInside.text)
        /\ blockState.final = LastCallInside.final
        /\ (/\ ~lastCall.before.final
            /\ ~HasFinalOpen(ProcessedOf(lastChunk, lastCall.before))) =>
               (lastCall.text = <<>> /\ ~blockState.final)

\* C17's case: the chunk "</final>a" met with state.final false gave no
\* output and left state.final false.
C17_Witness ==
    /\ nFed > 0
    /\ ~lastCall.before.final /\ ~lastCall.before.thinking
    /\ lastChunk = FinalClose \o <<"a">>
    /\ lastCall.text = <<>>
    /\ ~blockState.final

-----------------------------------------------------------------------------
(***************************************************************************)
(* Properties of emitBlockChunk (SpecEmit)                                 *)
(***************************************************************************)

\* C18: within one assistant message, an emitBlockChunk call whose chunk is
\* the same as that of the call right before it (a duplicate text_end) adds
\* nothing to assistantTexts and makes no block reply, and no emitBlockChunk
\* call adds to assistantTexts an entry equal to the entry before it when
\* that entry is from the same message.
C18_DuplicateChunkAddsNothing ==
    /\ sub.lastEmit.repeat =>
           (~sub.lastEmit.added /\ ~sub.lastEmit.replied)
    /\ ~sub.lastEmit.adjacent

\* C18's case: a chunk was emitted, added and delivered, and the same chunk
\* emitted again left one entry and one block reply.
C18_Witness ==
    /\ sub.lastEmit.repeat
    /\ subParams.onBlockReply
    /\ sub.assistantTexts = <<sub.lastEmit.chunk>>
    /\ blockReplies = <<sub.lastEmit.chunk>>

\* C19: a block chunk that repeats a successful messaging-tool send older
\* than the most recent one, and not the most recent one, is not suppressed:
\* unless it is the last block reply or the last assistant text of its
\* message, it is added to assistantTexts.
C19_OlderSendNotSuppressed ==
    (sub.lastEmit.olderSend /\ ~sub.lastEmit.otherSkip) => sub.lastEmit.added

-----------------------------------------------------------------------------
(***************************************************************************)
(* Properties of a single scanner call (SpecCall)                          *)
(***************************************************************************)

\* The call was made on a text without a thinking or final tag marker.
CalledUntagged == nFed = 1 /\ ~QUICK_TAG_RE(lastChunk)

\* C20 as stated: the scanner called in its initial state on a text with no
\* thinking or final tag marker returns the text and leaves thinking and
\* final false, enforcement mode on or off.
C20_UntaggedIsNoOp ==
    CalledUntagged =>
        /\ out = lastChunk
        /\ ~blockState.thinking /\ ~blockState.final

\* C20 amended: the scanner called in its initial state on a text with no
\* thinking or final tag marker leaves thinking and final false; with
\* enforcement mode off it returns the text, with enforcement mode on it
\* returns the empty text.
C20_UntaggedKeptOrWithheld ==
    CalledUntagged =>
        /\ out = IF scanInput.kind = "enforced" THEN <<>> ELSE lastChunk
        /\ ~blockState.thinking /\ ~blockState.final

\* C20's case: the text "a <" went through an enforcing scanner and nothing
\* came out.
C20_Witness ==
    /\ CalledUntagged
    /\ scanInput.kind = "enforced"
    /\ lastChunk = <<"a", " ", "<">>
    /\ out = <<>>

-----------------------------------------------------------------------------
(***************************************************************************)
(* Properties of the carried block state (SpecScan)                        *)
(***************************************************************************)

\* C21: in enforcement mode, after every scanner call on a chunk of a stream
\* <think>T</think><final>F</final>, or of a stream <think>T<final>F</final>
\* whose opening thinking tag is never closed, the carried state does not
\* have thinking and final both true.
C21_ThinkingFinalExclusive ==
    (nFed > 0 /\ scanInput.kind \in {"wellformed", "unclosed"}) =>
        ~(blockState.thinking /\ blockState.final)

\* C21's case: the first chunk of an unclosed stream held the opening
\* thinking tag and the opening final tag, and left the state inside the
\* final span and outside thinking.
C21_Witness ==
    /\ nFed = 1 /\ rest # <<>>
    /\ scanInput.kind = "unclosed"
    /\ HasFinalOpen(lastChunk)
    /\ blockState.final /\ ~blockState.thinking

-----------------------------------------------------------------------------
(***************************************************************************)
(* Properties of the rotation state (SpecRot)                              *)
(***************************************************************************)

\* The wrapped call has ended after the underlying function was called as it
\* is (fewer than two candidates, or a model not safe to rotate).
CallPassed == rot.pc = "passed"

\* The call itself ran out of candidates: it went through every candidate and
\* each was skipped (cooldown, no key) or ended rate-limited.
RanOutOfCandidates ==
    /\ CallDone
    /\ Len(attempts) = Len(profileCandidates)
    /\ \A a \in 1..Len(attempts) :
           attempts[a].outcome \in {"cooldown", "resolve_failed", "rate_limit"}

\* The call's last attempt succeeded and was replayed.
LastReplayed ==
    /\ attempts # <<>>
    /\ attempts[Len(attempts)].outcome = "replayed"

C23_RoundRobin ==
    /\ (CallDone /\ LastReplayed) =>
           /\ rotationState.rotationIndex =
                  (attempts[Len(attempts)].candidateIndex + 1)
                      % Len(profileCandidates)
           /\ Len(attempts) = 1 =>
                  attempts[1].candidateIndex = rot.startIndex
    /\ Len(profileCandidates) > 1 =>
           rotationState.rotationIndex \in 0..(Len(profileCandidates) - 1)

\* C23's case: the second call started at the last of three candidates,
\* succeeded with it, and rotationIndex wrapped to 0.
C23_Witness ==
    /\ CallDone /\ rot.callNo = 2
    /\ Len(profileCandidates) = 3
    /\ rot.startIndex = 2
    /\ Len(attempts) = 1 /\ LastReplayed
    /\ attempts[1].candidateIndex = 2
    /\ rotationState.rotationIndex = 0

\* C24: after a wrapped call in which every candidate was exhausted, the
\* rotation index differs from the index at which that call started.
C24_ExhaustedAdvancesIndex ==
    (CallDone /\ RanOutOfCandidates) =>
        rotationState.rotationIndex # rot.startIndex

\* The models that no check of canSafelyRotate takes: neither a Google api
\* nor "gemini" in the id.
NotRecognised ==
    { m \in Models : m.api = "anthropic-messages" }

\* C25: with fewer than 2 candidates, or a model not recognised as safe to
\* rotate, the call is passed through: the underlying function is called
\* exactly once with the caller's apiKey and maxRetries, its events are the
\* stream returned, and rotationIndex, allKeysExhausted and lastProfileId are
\* as the call found them.
C25_PassThroughUnchanged ==
    /\ (rot.pc # "idle"
           /\ (Len(profileCandidates) < 2 \/ rot.model \in NotRecognised))
         => CallPassed
    /\ CallPassed =>
           /\ Len(calls) = 1
           /\ calls[1].apiKey = CallerOptions.apiKey
           /\ calls[1].maxRetries = CallerOptions.maxRetries
           /\ outputStream.events = rot.inner
           /\ rotationState = rot.stateAtStart

\* C25's case: after a call that exhausted three candidates, a call with a
\* model that is not safe to rotate was passed through; the flag and the last
\* profile are still those of the call before.
C25_Witness ==
    /\ CallPassed /\ rot.callNo = 2
    /\ Len(profileCandidates) = 3
    /\ rot.model \in NotRecognised
    /\ rotationState.allKeysExhausted
    /\ rotationState.lastProfileId # 0
    /\ calls[1].apiKey = CallerOptions.apiKey

-----------------------------------------------------------------------------
(***************************************************************************)
(* Properties of the messaging-tool records (SpecTrim)                     *)
(***************************************************************************)

\* The entries number total - n + 1 .. total, n being total or the cap if
\* total is above it: the most recent ones of `total` entries.
LatestOf(total, cap, Entry(_)) ==
    LET n == IF total > cap THEN cap ELSE total
    IN  [i \in 1..n |-> Entry(total - n + i)]

\* The media URLs of the sends recorded.
UrlsLogged == Flatten([i \in 1..Len(toolLog) |-> toolLog[i].urls])

\* C26: after every recorded send followed by trimMessagingToolSent, each of
\* the four lists holds at most 200 entries, the entries it holds are the
\* most recent ones in their order (those removed are the oldest), and the
\* sent texts and the normalized texts have the same length, entry i of one
\* being the normalized form of entry i of the other.
C26_RecordsCappedAndAligned ==
    toolLog # <<>> =>
        LET last  == toolLog[Len(toolLog)]
            texts == sub.messagingToolSentTexts
            norm  == sub.messagingToolSentTextsNormalized
        IN  /\ Len(texts) <= 200
            /\ Len(norm) <= 200
            /\ Len(sub.messagingToolSentTargets) <= 200
            /\ Len(sub.messagingToolSentMediaUrls) <= 200
            /\ texts = LatestOf(SerialOf(last.text), 200, TextOf)
            /\ sub.messagingToolSentTargets =
                   LatestOf(last.target.to, 200, TargetOf)
            /\ UrlsLogged # <<>> =>
                   sub.messagingToolSentMediaUrls =
                       LatestOf(SerialOf(UrlsLogged[Len(UrlsLogged)]), 200,
                                UrlOf)
            /\ Len(norm) = Len(texts)
            /\ \A i \in 1..Len(texts) :
                   norm[i] = normalizeTextForComparison(texts[i])

\* C26's case: two sends with two media URLs each were recorded on top of
\* lists at their caps; the lists are at their caps and begin with the third
\* text, the third target and the fifth URL.
C26_Witness ==
    /\ Len(toolLog) = 2
    /\ Len(sub.messagingToolSentTexts) = 200
    /\ sub.messagingToolSentTexts[1] = TextOf(3)
    /\ sub.messagingToolSentTextsNormalized[1]
           = <<"h", "i", " ", "0", "0", "3">>
    /\ Len(sub.messagingToolSentTargets) = 200
    /\ sub.messagingToolSentTargets[1] = TargetOf(3)
    /\ Len(sub.messagingToolSentMediaUrls) = 200
    /\ sub.messagingToolSentMediaUrls[1] = UrlOf(5)

-----------------------------------------------------------------------------
(***************************************************************************)
(* Properties of suppressBlockChunks (SpecEmit)                            *)
(***************************************************************************)

\* C30: once finalizeAssistantTexts has written the authoritative text of a
\* message (reasoning included, no block-reply callback) in place of what was
\* added since assistantTextBaseline, assistantTexts stays as that call left
\* it, whatever emitBlockChunk calls follow, until resetAssistantMessageState
\* starts the next message.
C30_NoChunkAfterAuthoritativeText ==
    sub.written.done =>
        /\ sub.assistantTexts = sub.written.texts
        /\ ~sub.lastEmit.added

\* C30's case: a block chunk had added a text to a message, message_end put
\* the single text "OK" in its place, and an emitBlockChunk came after it.
C30_Witness ==
    /\ sub.written.done /\ sub.written.replaced
    /\ sub.lastEmit.suppressed
    /\ sub.assistantTexts = << <<"O","K">> >>
    /\ sub.assistantTextBaseline = 1

-----------------------------------------------------------------------------
(***************************************************************************)
(* Properties of resetForCompactionRetry (SpecRetry)                       *)
(***************************************************************************)

\* C27: after resetForCompactionRetry, assistantTexts is empty,
\* assistantTextBaseline is 0, the scanner's thinking and final states are
\* false, suppressBlockChunks is false and all messaging-tool sent and
\* pending records are empty, while pendingCompactionRetry, compactionInFlight
\* and the shared compaction promise are as the call found them.
C27_ResetForCompactionRetry ==
    sub.reset.done =>
        /\ sub.assistantTexts = <<>>
        /\ sub.assistantTextBaseline = 0
        /\ ~blockState.thinking /\ ~blockState.final
        /\ ~sub.suppressBlockChunks
        /\ sub.messagingToolSentTexts = <<>>
        /\ sub.messagingToolSentTextsNormalized = <<>>
        /\ sub.messagingToolSentTargets = <<>>
        /\ sub.messagingToolSentMediaUrls = <<>>
        /\ sub.pendingMessagingTexts = <<>>
        /\ sub.pendingMessagingTargets = <<>>
        /\ sub.pendingMessagingMediaUrls = <<>>
        /\ comp.pendingCompactionRetry = sub.reset.comp.pendingCompactionRetry
        /\ comp.compactionInFlight = sub.reset.comp.compactionInFlight
        /\ comp.compactionRetryPromise = sub.reset.comp.compactionRetryPromise
        /\ promises = sub.reset.promises

\* C27's case: the reset found an authoritative text written and block chunks
\* suppressed, a thinking and a final span open, one send recorded and one pending, a
\* compaction retry pending and its promise unsettled.
C27_Witness ==
    /\ sub.reset.done
    /\ sub.reset.sub.assistantTexts # <<>>
    /\ sub.reset.sub.assistantTextBaseline > 0
    /\ sub.reset.sub.suppressBlockChunks
    /\ sub.reset.blockState.thinking /\ sub.reset.blockState.final
    /\ sub.reset.sub.messagingToolSentTexts # <<>>
    /\ sub.reset.sub.messagingToolSentMediaUrls # <<>>
    /\ sub.reset.sub.pendingMessagingTargets # <<>>
    /\ comp.pendingCompactionRetry = 1
    /\ comp.compactionRetryPromise # 0
    /\ promises[comp.compactionRetryPromise].status = "pending"

-----------------------------------------------------------------------------
(***************************************************************************)
(* Properties of repairMalformedReasoningTags (SpecRepair)                 *)
(***************************************************************************)

\* The place of the first opening final tag among the pieces (0: none).
FirstFinalOpenPiece(ps) ==
    IF \E k \in 1..Len(ps) : ps[k] = FinalOpen
    THEN CHOOSE k \in 1..Len(ps) :
             /\ ps[k] = FinalOpen
             /\ \A j \in 1..(k - 1) : ps[j] # FinalOpen
    ELSE 0

\* An opening thinking tag stands before piece f with no closing thinking
\* tag between them.
UnclosedThinkBefore(ps, f) ==
    \E t \in 1..(f - 1) :
        /\ ps[t] = ThinkOpen
        /\ \A k \in (t + 1)..(f - 1) : ps[k] # ThinkClose

\* C28: repairMalformedReasoningTags inserts one closing thinking tag
\* immediately before the first opening final tag exactly when an opening
\* thinking tag stands before that final tag with no closing thinking tag
\* between them, and returns the text unchanged in every other case.
C28_RepairsExactlyWhenUnclosed ==
    (scanInput.kind = "pieces" /\ nFed = 1) =>
        LET ps == scanInput.ps
            f  == FirstFinalOpenPiece(ps)
        IN  out = IF f > 0 /\ UnclosedThinkBefore(ps, f)
                  THEN Flatten(SubSeq(ps, 1, f - 1)) \o ThinkClose
                           \o Flatten(SubSeq(ps, f, Len(ps)))
                  ELSE scanInput.text

-----------------------------------------------------------------------------
(***************************************************************************)
(* Properties of orphaned closing thinking tags (SpecOrphan)               *)
(***************************************************************************)

\* The place of the last closing thinking tag that no opening thinking tag
\* precedes in the chunk (0: none).
LastOrphanPiece(ps) ==
    LET orphans == { k \in 1..Len(ps) :
                       /\ ps[k] = ThinkClose
                       /\ \A j \in 1..(k - 1) : ps[j] # ThinkOpen }
    IN  IF orphans = {} THEN 0
        ELSE CHOOSE k \in orphans : \A j \in orphans : j <= k

\* What the call should have given on a chunk with orphaned closing tags:
\* the scan of what follows the last of them, from a state that is not
\* thinking.
ScanAfterLastOrphan ==
    LET k   == LastOrphanPiece(scanInput.ps)
        cut == Len(Flatten(SubSeq(scanInput.ps, 1, k)))
    IN  StripRepaired(
            SliceFrom(repairMalformedReasoningTags(scanInput.text), cut),
            [lastCall.before EXCEPT !.thinking = FALSE],
            scanInput.enforceFinalTag)

\* The call was made on a chunk with an orphaned closing thinking tag.
CalledWithOrphan ==
    /\ scanInput.kind = "chunk" /\ nFed = 1
    /\ LastOrphanPiece(scanInput.ps) > 0

\* C29 as stated: called with state.thinking true on a chunk with closing
\* thinking tags that no opening thinking tag precedes in the chunk, the
\* scanner discards everything before the last of them and scans only the
\* text after it, outside any thinking span.
C29_OrphansCutWhenThinking ==
    (CalledWithOrphan /\ lastCall.before.thinking) =>
        /\ out = ScanAfterLastOrphan.text
        /\ blockState = ScanAfterLastOrphan.state

\* C29, amended: called with state.thinking false on such a chunk, the
\* scanner discards everything before the last of those closing tags and
\* scans only the text after it, outside any thinking span.
C29_OrphansCutWhenNotThinking ==
    (CalledWithOrphan /\ ~lastCall.before.thinking) =>
        /\ out = ScanAfterLastOrphan.text
        /\ blockState = ScanAfterLastOrphan.state

\* C29's case: "</think>a</think>a" scanned from a state that is not
\* thinking, the final tag not enforced, has given "a".
C29_Witness ==
    /\ CalledWithOrphan /\ ~lastCall.before.thinking
    /\ ~scanInput.enforceFinalTag
    /\ scanInput.ps = << ThinkClose, <<"a">>, ThinkClose, <<"a">> >>
    /\ out = <<"a">>
-----------------------------------------------------------------------------
(***************************************************************************)
(* Properties of the rotation loop (SpecRot)                               *)
(***************************************************************************)

\* A wrapped call is in its loop, reading an inner stream, or has ended.
InWrappedCall == rot.pc \in {"loop", "consume", "done"}

\* Attempt a of the call was skipped: cooldown window or no key.
SkippedAttempt(a) == attempts[a].outcome \in {"cooldown", "resolve_failed"}

\* The candidate of attempt a (0 is an undefined candidate).
CandidateOfAttempt(a) == profileCandidates[attempts[a].candidateIndex + 1]

\* A skipped attempt made no underlying call.
SkippedMakeNoCall ==
    \A a \in 1..Len(attempts) :
        SkippedAttempt(a) => \A c \in 1..Len(calls) : calls[c].attempt # a - 1

\* Every candidate was skipped: the call made no underlying call and ended
\* with the single "all exhausted" error event and allKeysExhausted true.
AllSkippedEndsExhausted ==
    (/\ CallDone
     /\ \A a \in 1..Len(attempts) : SkippedAttempt(a)) =>
        /\ calls = <<>>
        /\ outputStream = [events |-> <<ExhaustedError>>, ended |-> TRUE]
        /\ rotationState.allKeysExhausted

\* C31 as stated: in a wrapped call a candidate in a cooldown window or whose
\* key cannot be resolved is skipped without an underlying call; every
\* candidate that ended in a rate-limit error is in cooldown from then on,
\* so before the next candidate is tried; and a call in which every
\* candidate was skipped ends exhausted without an underlying call.
C31_SkipsAndCooldowns ==
    InWrappedCall =>
        /\ SkippedMakeNoCall
        /\ \A a \in 1..Len(attempts) :
               attempts[a].outcome = "rate_limit" =>
                   isProfileInCooldown(authStore, CandidateOfAttempt(a))
        /\ AllSkippedEndsExhausted

\* C31, amended: the same, the cooldown being marked for every candidate
\* that names a profile; an undefined candidate that ended in a rate-limit
\* error has no profile to mark and the loop goes on to the next candidate.
C31_SkipsAndProfileCooldowns ==
    InWrappedCall =>
        /\ SkippedMakeNoCall
        /\ \A a \in 1..Len(attempts) :
               (attempts[a].outcome = "rate_limit"
                    /\ CandidateOfAttempt(a) # 0) =>
                   isProfileInCooldown(authStore, CandidateOfAttempt(a))
        /\ AllSkippedEndsExhausted

\* C31's case: of three candidates the first ended in a rate-limit error and
\* was put in cooldown, the second was found in cooldown and the key of the
\* third did not resolve; one underlying call was made and the call ended
\* with the "all exhausted" error.
C31_Witness ==
    /\ CallDone
    /\ profileCandidates = <<1, 2, 3>>
    /\ Len(attempts) = 3
    /\ attempts[1].outcome = "rate_limit" /\ 1 \in authStore
    /\ 1 \notin rot.cooldownAtStart
    /\ attempts[2].outcome = "cooldown"
    /\ attempts[3].outcome = "resolve_failed"
    /\ Len(calls) = 1 /\ calls[1].attempt = 0
    /\ outputStream = [events |-> <<ExhaustedError>>, ended |-> TRUE]
    /\ rotationState.allKeysExhausted

-----------------------------------------------------------------------------
(***************************************************************************)
(* Termination of a wrapped call (SpecRotLive)                             *)
(***************************************************************************)

\* The async body of a wrapped call is still running.
BodyRunning == rot.pc \in {"loop", "consume"}

\* The output stream is not ended while the body runs and is ended when the
\* body has returned.
EndedWhenDone ==
    /\ BodyRunning => ~outputStream.ended
    /\ rot.pc = "done" => outputStream.ended

\* Once ended, the output stream of a wrapped call is left alone.
NothingAfterEnd ==
    (InWrappedCall /\ outputStream.ended) => outputStream' = outputStream

\* No more underlying calls than candidates, and no candidate tried twice.
BoundedAttempts ==
    InWrappedCall =>
        /\ Len(calls) <= Len(profileCandidates)
        /\ Len(attempts) <= Len(profileCandidates)
        /\ \A a, b \in 1..Len(attempts) :
               a # b => attempts[a].candidateIndex # attempts[b].candidateIndex
        /\ \A a, b \in 1..Len(calls) :
               a # b => calls[a].candidateIndex # calls[b].candidateIndex

\* C39: a wrapped call ends its output stream exactly once (at the step its
\* body returns, and every body returns) and pushes nothing after that,
\* after at most one attempt per candidate and at most as many underlying
\* calls as there are candidates.
C39_EndsOnceAfterBoundedAttempts ==
    /\ [](EndedWhenDone /\ BoundedAttempts)
    /\ [][NothingAfterEnd]_vars
    /\ [](BodyRunning => <>(rot.pc = "done"))

\* C39: a call with three candidates has made three underlying calls, each
\* rate limited, and has ended with the exhaustion error alone.
C39_Witness ==
    /\ rot.pc = "done"
    /\ Len(profileCandidates) = 3
    /\ Len(calls) = 3
    /\ \A a \in 1..3 : attempts[a].outcome = "rate_limit"
    /\ outputStream = [events |-> <<ExhaustedError>>, ended |-> TRUE]

-----------------------------------------------------------------------------
(***************************************************************************)
(* Properties of the buffering wrapper (SpecBuf)                           *)
(***************************************************************************)

-----------------------------------------------------------------------------
(***************************************************************************)
(* Properties of the non-streaming Google wrapper (SpecGns)                *)
(***************************************************************************)

IsTerminalEvent(e) == e \in {"done", "error"}

\* C33: the stream of a call for a google-generative-ai model, once the
\* call is over, is ended and holds exactly one terminal event, its last;
\* it is either start, content events and done, or the error event alone.
C33_FullSuccessOrCleanFailure ==
    (gns.pc = "done") =>
        LET ev == gns.stream.events
        IN  /\ gns.stream.ended
            /\ ev # <<>>
            /\ \A i \in 1..Len(ev) : IsTerminalEvent(ev[i]) <=> i = Len(ev)
            /\ \/ ev[Len(ev)] = "done" /\ ev[1] = "start"
               \/ ev = <<"error">>
-----------------------------------------------------------------------------
(***************************************************************************)
(* Properties of waitForCompactionRetry around unsubscribe (SpecComp)      *)
(***************************************************************************)

\* This step is a waitForCompactionRetry call.
IsWaitCall == Len(waiters') = Len(waiters) + 1

\* The settlement of the promise of call i after this step.
StatusAfter(i) ==
    IF waiters'[i].promise # 0 THEN promises'[waiters'[i].promise].status
    ELSE waiters'[i].own

\* The promise of call i is pending before this step and resolved after it.
ResolvesInStep(i) ==
    /\ WaiterStatus(waiters[i]) = "pending"
    /\ StatusAfter(i) = "resolved"

\* C34: a waitForCompactionRetry call made after unsubscribe returns a
\* promise of its own that is already rejected and leaves the coordinator
\* and the shared promises as they are; a call made while nothing is
\* pending returns a pending promise with a microtask queued; that microtask,
\* run after unsubscribe, rejects the promise; and the promise of such a
\* call is resolved only by a step that leaves no retry pending and no
\* compaction in flight.
C34_LateAndDeferredWaits ==
    [][ /\ (IsWaitCall /\ comp.unsubscribed) =>
               /\ waiters'[Len(waiters')].promise = 0
               /\ waiters'[Len(waiters')].own = "rejected"
               /\ waiters'[Len(waiters')].micro = "none"
               /\ comp' = comp /\ promises' = promises
        /\ (IsWaitCall /\ ~comp.unsubscribed /\ ~isCompacting) =>
               /\ waiters'[Len(waiters')].micro = "queued"
               /\ StatusAfter(Len(waiters')) = "pending"
        /\ \A i \in 1..Len(waiters) :
               /\ (waiters[i].micro = "queued" /\ waiters'[i].micro = "ran"
                       /\ comp.unsubscribed) =>
                      StatusAfter(i) = "rejected"
               /\ (waiters[i].micro # "none" /\ ResolvesInStep(i)) =>
                      ~isCompacting'
      ]_vars

\* C34's case: a call made while nothing was pending whose microtask ran
\* after unsubscribe and rejected its promise.
C34_Witness ==
    /\ comp.unsubscribed
    /\ \E i \in 1..Len(waiters) :
           /\ waiters[i].micro = "ran" /\ waiters[i].promise = 0
           /\ waiters[i].own = "rejected"

-----------------------------------------------------------------------------
(***************************************************************************)
(* Settlement of the waits (SpecCompLive)                                  *)
(***************************************************************************)

\* Every noted retry is eventually followed by a resolveCompactionRetry
\* call: such calls go on for ever, or in the end no retry is pending (the
\* counter only comes down through resolveCompactionRetry).
RetriesGetResolved ==
    \/ []<><<ResolveCompactionRetry>>_vars
    \/ <>[](comp.pendingCompactionRetry = 0)

\* Every compaction in flight eventually ends: ends that call
\* maybeResolveCompactionWait go on for ever, or in the end no compaction is
\* in flight.
CompactionsEnd ==
    \/ []<><<CompactionEnd(FALSE)>>_vars
    \/ <>[](~comp.compactionInFlight)

\* No retry is pending and no compaction is in flight.
Quiescent == comp.pendingCompactionRetry = 0 /\ ~comp.compactionInFlight

\* Every promise waitForCompactionRetry returned is eventually settled.
AllWaitsSettle ==
    \A i \in 1..MaxWaiters :
        [](i \in 1..Len(waiters) => <>(i \notin PendingWaiters))

\* C38 as stated: if every noted retry is eventually resolved and every
\* compaction in flight eventually ends with maybeResolveCompactionWait, or
\* unsubscribe is eventually called, every promise waitForCompactionRetry
\* returned is eventually settled.
C38_WaitsSettle ==
    ((RetriesGetResolved /\ CompactionsEnd) \/ <>comp.unsubscribed)
        => AllWaitsSettle

\* C38: the same when, besides, the subscription is again and again without
\* a pending retry and without a compaction in flight.
C38_WaitsSettleOnceQuiet ==
    ((RetriesGetResolved /\ CompactionsEnd /\ []<>Quiescent)
        \/ <>comp.unsubscribed)
        => AllWaitsSettle

\* C38: a wait taken while a compaction was in flight or a retry pending has
\* been resolved through the shared promise.
C38_Witness ==
    /\ ~comp.unsubscribed
    /\ Quiescent
    /\ \E i \in 1..Len(waiters) :
           /\ waiters[i].promise # 0
           /\ waiters[i].scenario \in {"inflight", "counted", "disturbed"}
           /\ WaiterStatus(waiters[i]) = "resolved"

-----------------------------------------------------------------------------
(***************************************************************************)
(* Properties of the idle reminder's count (SpecIdle)                      *)
(***************************************************************************)

\* This step is a tick that found requests in flight or new activity.
BusyOrActivityTick ==
    /\ idleLog' # idleLog
    /\ idleLog'.last \in {"busy", "activity"}

\* C35: since the reminder's last reset (a startIdleReminder call or a tick
\* that found new content) at most MAX_REMIND_COUNT heartbeats were sent; a
\* tick that finds requests in flight or new activity starts no heartbeat,
\* leaves the session registered with a timer armed and does not raise the
\* count; and no registered reminder has its count at the maximum.
C35_AtMostMaxHeartbeats ==
    /\ [](idleLog.sent <= MAX_REMIND_COUNT)
    /\ [][BusyOrActivityTick =>
             /\ checks' = checks
             /\ idleLog'.sent <= idleLog.sent
             /\ activeReminders' = activeReminders /\ activeReminders # 0
             /\ reminderStates'[activeReminders].timer \in timers'
             /\ reminderStates'[activeReminders].count
                    <= reminderStates[activeReminders].count]_vars
    /\ [](activeReminders # 0 =>
             reminderStates[activeReminders].count < MAX_REMIND_COUNT)
-----------------------------------------------------------------------------
(***************************************************************************)
(* Properties of promoteCallTagsToBlocks (SpecPromo)                       *)
(***************************************************************************)

\* The toolCall blocks of a message.
ToolCallsOf(message) ==
    { b \in 1..Len(message.content) : message.content[b].type = "toolCall" }

\* C36: after promoteCallTagsToBlocks the stop reason differs from the one
\* the message had only if a toolCall block was added; and a message whose
\* call tags could not be parsed (none became a toolCall block) has its
\* blocks and its stop reason as before.
C36_ToolCallOnlyWithBlocks ==
    promo.done =>
        LET added == Cardinality(ToolCallsOf(promo.result))
                         - Cardinality(ToolCallsOf(promo.message))
        IN  /\ promo.result.stopReason # promo.message.stopReason => added >= 1
            /\ added = 0 => promo.result = promo.message

\* This step completes the waiting check i, which was begun for a state
\* object that a later startIdleReminder has replaced in the map.
StaleCheckCompletes(i) ==
    /\ i \in 1..Len(checks)
    /\ checks' = RemoveAt(checks, i)
    /\ activeReminders # 0
    /\ checks[i].state # activeReminders

\* C37: when a check completes that was waiting for its heartbeat while
\* startIdleReminder was called again, the reminder started by that call is
\* still the registered one, its count is 0, and its timer is armed and is
\* the only timer armed.
C37_NewReminderSurvives ==
    [][\A i \in 1..MaxStarts :
           StaleCheckCompletes(i) =>
               /\ activeReminders' = activeReminders
               /\ reminderStates'[activeReminders].count = 0
               /\ reminderStates'[activeReminders].timer # 0
               /\ timers' = {reminderStates'[activeReminders].timer}]_vars
-----------------------------------------------------------------------------
(***************************************************************************)
(* Properties of the agent media cache (SpecCache)                         *)
(***************************************************************************)

RECURSIVE SumOfSizes(_)
SumOfSizes(entries) ==
    IF entries = <<>> THEN 0
    ELSE Head(entries).size + SumOfSizes(Tail(entries))

\* Every saveToAgentCache call made has returned.
AllSaversDone ==
    \A p \in 1..Len(cache.savers) : cache.savers[p].pc = "done"

\* C40: when the saveToAgentCache calls have all returned, the index's
\* totalSize is the sum of the sizes of its entries, no entry is in the
\* index twice, and no entry's size was taken off totalSize twice.
C40_TotalSizeIsSumOfEntries ==
    AllSaversDone =>
        /\ cache.index.totalSize = SumOfSizes(cache.index.entries)
        /\ \A i, j \in 1..Len(cache.index.entries) :
               cache.index.entries[i].id = cache.index.entries[j].id => i = j
        /\ \A i, j \in 1..Len(cache.subtracted) :
               cache.subtracted[i] = cache.subtracted[j] => i = j
=============================================================================
